---- MODULE Spec2Model ----
(***************************************************************************)
(* Topic insertion workflow of the topic generator                         *)
(* (src/agents/topic-generator/test_insertion.py, insert_topic_to_convex): *)
(* an ordered sequence of writes to the document store (topic, embedding,  *)
(* blocks, publish, notification) with two clean-up paths, the list-based  *)
(* compensation of the inner handler and the query-based sweep of the      *)
(* outer handler.  Every call to the store is one step; a call either      *)
(* returns or raises.                                                      *)
(***************************************************************************)
EXTENDS Integers, Sequences, FiniteSets, TLC

\* ------------------------------------------------------------------ bounds
\* Largest number of store calls that raise in one invocation.
MaxFaults == 3
\* Number of questions of a quiz and of a final quiz that have questions.
QuizQuestions == 2
FinalQuizQuestions == 3

\* --------------------------------------------------------------- constants
None == "None"

\* The block steps in the order the workflow creates them.
Sections ==
    << "research_brief", "quiz", "research_deep", "reorder",
       "real_world_impact", "final_quiz", "summary" >>

\* Shapes of research_brief: no "text" key, "text": null, "text": "", text.
BriefValues == { "missing", "null", "empty", "text" }
\* Shapes of reorder: absent, a record without question, a full record.
ReorderValues == { "absent", "noquestion", "full" }

\* A decoded agent output, reduced to what the workflow branches on.
Payloads ==
    [ valid : {TRUE},
      research_brief : BriefValues,
      quiz : BOOLEAN,
      research_deep : BOOLEAN,
      reorder : ReorderValues,
      real_world_impact : BOOLEAN,
      final_quiz : BOOLEAN,
      flash_cards : BOOLEAN,
      publish_immediately : BOOLEAN,
      created_by : BOOLEAN ]

\* An agent output that json.loads rejects; created_by is then the user_id
\* argument, known or not.
InvalidPayloads ==
    [ valid : {FALSE},
      research_brief : {"missing"},
      quiz : {FALSE},
      research_deep : {FALSE},
      reorder : {"absent"},
      real_world_impact : {FALSE},
      final_quiz : {FALSE},
      flash_cards : {FALSE},
      publish_immediately : {TRUE},
      created_by : BOOLEAN ]

TopicId == "t1"
EmbeddingId == "e1"

VARIABLES
    convex_url,         \* TRUE when CONVEX_URL is set
    agent_output,       \* the payload handed to the workflow
    pc,                 \* position of the workflow
    topic_id,           \* local topic_id, None until createTopic returned
    created_resources,  \* [embedding_id, block_ids], the tracked resources
    order,              \* the order counter of the block creation
    sec,                \* index of the next section / loop position
    e,                  \* the exception the outer handler caught
    cleanup_error,      \* the last exception a clean-up call raised
    listed,             \* ids the sweep's last query returned
    notification_type,  \* outcome of the last notification-type lookup
    store,              \* the document store
    result,             \* << >> until the workflow returns, then <<dict>>
    faults,             \* number of store calls that raised
    calls,              \* names of the store operations issued so far
    compAttempted,      \* ids the list-based path tried to delete
    sweepAttempted,     \* ids the query-based sweep tried to delete
    deleteTopicCalls,   \* number of topics:deleteTopic calls issued
    deleteFailed,       \* a delete of a row the store holds raised
    firstError,         \* the first exception raised in the invocation
    text,               \* the reply handed to parse_json_from_markdown
    shape,              \* how that reply was put together
    dpc,                \* position of the decoder
    parsed_json,        \* the value the decoder returns
    should_retry,       \* the retry flag the decoder returns
    endpoint,           \* the route of the request being served
    body,               \* what request.get_json() has to work on
    apc,                \* position of the request handler
    sessions,           \* agents a session was created against
    created,            \* agents whose create_session answered 200
    deleted,            \* agents delete_session was called for
    invoked,            \* agents that were run
    validation,         \* << >> or <<[result, status_code]>> of the check
    model_response,     \* the reply extracted from the last agent run
    response,           \* << >> until the handler returns, then <<response>>
    hpc,                \* which helper is applied, and whether it has run
    title,              \* the topic title handed to create_slug
    slug,               \* the slug it returns
    words,              \* word counts of the three texts that are combined
    estimated_time,     \* what estimate_read_time returns
    all_categories,     \* the rows categories:getCategories returns
    selected_category_id, \* selected_category of the payload
    category_id,        \* what the category validation yields
    topic_data,         \* the fields of the topics:createTopic argument
    metadata,           \* the metadata of the success return
    runs,               \* the state of each of two interleaved invocations
    shared,             \* the document store the two invocations write to
    raised              \* number of their store calls that raised

\* The variables of parse_json_from_markdown.
decoder == << text, shape, dpc, parsed_json, should_retry >>

\* The variables of the check-topic and generate-topic handlers.
endpoints ==
    << endpoint, body, apc, sessions, created, deleted, invoked, validation,
       model_response, response >>

\* The variables of the topic metadata helpers.
helpers ==
    << hpc, title, slug, words, estimated_time, all_categories,
       selected_category_id, category_id, topic_data, metadata >>

\* The variables of two invocations sharing one store.
concurrent == << runs, shared, raised >>

vars ==
    << convex_url, agent_output, pc, topic_id, created_resources, order, sec,
       e, cleanup_error, listed, notification_type, store, result, faults, calls, compAttempted,
       sweepAttempted, deleteTopicCalls, deleteFailed, firstError, decoder,
       endpoints, helpers, concurrent >>

hist == << calls, compAttempted, sweepAttempted, deleteTopicCalls,
           deleteFailed, firstError >>


\* ----------------------------------------------------------------- helpers
\* `if not convex_url`
ConfigMissingIgnored(url) == FALSE
ConfigMissing(url) == ~url

\* The truthiness gate in front of each createBlock call.
HasContentAnyReorder(p, step) ==
    CASE step = "research_brief"    -> p.research_brief = "text"
      [] step = "quiz"              -> p.quiz
      [] step = "research_deep"     -> p.research_deep
      [] step = "reorder"           -> p.reorder # "absent"
      [] step = "real_world_impact" -> p.real_world_impact
      [] step = "final_quiz"        -> p.final_quiz
      [] step = "summary"           -> p.flash_cards
HasContent(p, step) ==
    CASE step = "research_brief"    -> p.research_brief = "text"
      [] step = "quiz"              -> p.quiz
      [] step = "research_deep"     -> p.research_deep
      [] step = "reorder"           -> p.reorder = "full"
      [] step = "real_world_impact" -> p.real_world_impact
      [] step = "final_quiz"        -> p.final_quiz
      [] step = "summary"           -> p.flash_cards

EmptyStore ==
    [ topics |-> {}, published |-> {}, embeddings |-> << >>,
      blocks |-> << >>, notifications |-> {} ]

RemoveRow(rows, id) == SelectSeq(rows, LAMBDA r : r.id # id)
\* The rows a by-topic query returns.
RowsOfAnyTopic(rows, tid) == rows
RowsOfTopic(rows, tid) == SelectSeq(rows, LAMBDA r : r.topicId = tid)
Ids(rows) == { rows[k].id : k \in 1..Len(rows) }
Range(s) == { s[k] : k \in 1..Len(s) }

\* The store holds a row with this id.
Holds(st, id) == id \in st.topics \cup Ids(st.embeddings) \cup Ids(st.blocks)

\* What the store holds after each operation.
createTopic(st, tid) == [st EXCEPT !.topics = @ \cup {tid}]
publishTopic(st, tid) == [st EXCEPT !.published = @ \cup {tid}]
deleteTopic(st, tid) ==
    [st EXCEPT !.topics = @ \ {tid}, !.published = @ \ {tid}]
createEmbedding(st, id, tid) ==
    [st EXCEPT !.embeddings = Append(@, [id |-> id, topicId |-> tid])]
deleteEmbedding(st, id) == [st EXCEPT !.embeddings = RemoveRow(@, id)]
createBlock(st, id, tid, step, ord) ==
    [st EXCEPT !.blocks =
        Append(@, [id |-> id, topicId |-> tid, step |-> step, order |-> ord])]
deleteBlock(st, id) == [st EXCEPT !.blocks = RemoveRow(@, id)]
createNotification(st, kind) == [st EXCEPT !.notifications = @ \cup {kind}]

\* created_resources["block_ids"].append(block_id)
TrackBlockForgotten(block_ids, id) == block_ids
TrackBlock(block_ids, id) == Append(block_ids, id)

\* Where the inner handler goes when its block loop is at index k.
CompensationStepBlocksOnly(res, k) ==
    IF res.block_ids # << >> THEN "comp_blocks"
    ELSE IF res.embedding_id # None THEN "comp_embedding"
    ELSE "comp_topic"
CompensationStepTopicFirst(res, k) ==
    IF k <= Len(res.block_ids) THEN "comp_topic" ELSE "comp_embedding"
CompensationStep(res, k) ==
    IF k <= Len(res.block_ids) THEN "comp_blocks"
    ELSE IF res.embedding_id # None THEN "comp_embedding"
    ELSE "comp_topic"

\* `order += 1` after each block that was created.
NextOrderStuck(ord) == ord
NextOrder(ord) == ord + 1

\* Lines 284-414: the sections follow one another, and the publish step
\* follows the last of them.
AfterBlocksFirst(k) == "publish"
AfterBlocks(k) == IF k = Len(Sections) THEN "publish" ELSE "create_blocks"

\* `if 'topic_id' in locals()` of the outer handler.
OuterHandlerNoSweep(tid) == "error_notification"
OuterHandlerAlwaysSweep(tid) == "sweep_list_blocks"
OuterHandler(tid) ==
    IF tid # None THEN "sweep_list_blocks" ELSE "error_notification"

\* Lines 497-522: the sweep is one try block; the handler of line 521
\* ends it when the list-blocks query raises.
AfterListBlocksErrorGoOn == "sweep_list_embeddings"
AfterListBlocksError == "error_notification"

\* The inner handler's `except Exception as cleanup_error: print(...)`:
\* the handler goes on with the step that follows.
AfterCleanupErrorAbort(next) == OuterHandler(topic_id)
AfterCleanupError(next) == next

\* `raise block_error`
ReraisedCleanupError(block_error, last_cleanup_error) ==
    IF last_cleanup_error # None THEN last_cleanup_error ELSE block_error
Reraised(block_error, last_cleanup_error) == block_error

\* `if error_notification_type and created_by`
ShouldNotifyErrorAlways(found, created_by) == found
ShouldNotifyError(found, created_by) == found /\ created_by

\* Lines 471-479: after the notification was written the success result
\* is returned; no call stands between the two.
AfterNotifyWriteToHandler == "error_notification"
AfterNotifyWrite == "return_success"

\* The handler around the success notification write: log only.
AfterNotifyWriteErrorEscalate(tid) == OuterHandler(tid)
AfterNotifyWriteError(tid) == "return_success"

FailureResult(err) ==
    [ success |-> FALSE, topic_id |-> None, message |-> err,
      metadata |-> None ]
\* Lines 207-214: the exercises counted for the metadata.  A quiz with
\* questions has QuizQuestions of them, a final quiz FinalQuizQuestions.
Questions(present, n) == IF present THEN n ELSE 0
exercise_count_by_question(p) ==
    Questions(p.quiz, QuizQuestions)
    + (IF p.reorder = "full" THEN 1 ELSE 0)
    + Questions(p.final_quiz, FinalQuizQuestions)
exercise_count(p) ==
    Questions(p.quiz, QuizQuestions)
    + (IF p.reorder # "absent" THEN 1 ELSE 0)
    + Questions(p.final_quiz, FinalQuizQuestions)

SuccessResultPublished(tid, p) ==
    [ success |-> TRUE, topic_id |-> tid, message |-> "inserted",
      metadata |-> [ exercise_count |-> exercise_count(p),
                     published |-> TRUE ] ]
SuccessResult(tid, p) ==
    [ success |-> TRUE, topic_id |-> tid, message |-> "inserted",
      metadata |-> [ exercise_count |-> exercise_count(p),
                     published |-> p.publish_immediately ] ]
ConfigResult ==
    [ success |-> FALSE, error |-> "CONVEX_URL environment variable not set" ]

\* A store call is issued; it returns, or it raises (within the budget).
Call(op) == calls' = calls \cup {op}
Returns == faults' = faults
Raises == faults < MaxFaults /\ faults' = faults + 1
Raised(x) == firstError' = IF firstError = None THEN x ELSE firstError

\* ------------------------------------------------- the reply decoder
\* parse_json_from_markdown (src/generator_api/app.py).  A reply is a
\* sequence of tokens: the fence openers, line breaks, prose, and the text
\* of one JSON document.

\* Largest number of blocks in a composed reply.
MaxBlocks == 2
\* Largest number of tokens in a freely drawn reply.
MaxRaw == 4

\* The two fence openers: three backticks, with and without the json label.
FenceJson == "<fence>json"
Fence == "<fence>"
NL == "\n"
Prose == "Here is the result:"

\* Python values, reduced to their type and to what sits under 'success'
\* and, for the topic checker's verdict, under 'status'.
Dict(s) ==
    [ type |-> "dict", success |-> s, status |-> "missing", empty |-> FALSE ]
Verdict(st) ==
    [ type |-> "dict", success |-> "missing", status |-> st, empty |-> FALSE ]
EmptyDict ==
    [ type |-> "dict", success |-> "missing", status |-> "missing",
      empty |-> TRUE ]
Atom(t) ==
    [ type |-> t, success |-> "missing", status |-> "missing",
      empty |-> FALSE ]
PyNone == Atom("NoneType")

\* JSON documents: the text, and the value json.loads makes of it.
JsonDocuments ==
    { << "{\"success\": true}", Dict("True") >>,
      << "{\"success\": false}", Dict("False") >>,
      << "{\"topic\": \"x\"}", Dict("missing") >>,
      << "{\"success\": null}", Dict("None") >>,
      << "{\"success\": 0}", Dict("0") >>,
      << "{\"success\": \"false\"}", Dict("'false'") >>,
      << "{\"status\": \"VALID\"}", Verdict("VALID") >>,
      << "{\"status\": \"INVALID\"}", Verdict("INVALID") >>,
      << "{}", EmptyDict >>,
      << "42", Atom("int") >>,
      << "[1, 2]", Atom("list") >>,
      << "\"done\"", Atom("str") >>,
      << "true", Atom("bool") >>,
      << "null", PyNone >> }
JsonTexts == { d[1] : d \in JsonDocuments }
JsonValues == { d[2] : d \in JsonDocuments }
\* A text json.loads rejects.
Malformed == "{\"success\": tr"

Min(S) == CHOOSE x \in S : \A y \in S : x <= y
Max(S) == CHOOSE x \in S : \A y \in S : x >= y

\* json.loads skips the whitespace around the document and accepts exactly
\* one document.
Strip(t) ==
    LET solid == { i \in 1..Len(t) : t[i] # NL }
    IN IF solid = {} THEN << >> ELSE SubSeq(t, Min(solid), Max(solid))
json_loads(t) ==
    LET s == Strip(t)
    IN IF Len(s) = 1 /\ s[1] \in JsonTexts
       THEN [ ok |-> TRUE,
              value |-> (CHOOSE d \in JsonDocuments : d[1] = s[1])[2] ]
       ELSE [ ok |-> FALSE, value |-> PyNone ]
json_dumps(v) == (CHOOSE d \in JsonDocuments : d[2] = v)[1]

\* `parsed_json.get('success') is False`
Get(v) == IF v.success = "missing" THEN "None" ELSE v.success
ShouldRetryEquals(v) == Get(v) \in { "False", "0" }
ShouldRetry(v) == Get(v) = "False"

\* json.loads, .get and return: the three statements each attempt runs.
Attempt(t) ==
    LET r == json_loads(t)
    IN IF ~r.ok THEN [ kind |-> "JSONDecodeError" ]
       ELSE IF r.value.type # "dict" THEN [ kind |-> "AttributeError" ]
       ELSE [ kind |-> "return", value |-> r.value,
              retry |-> ShouldRetry(r.value) ]

\* re.search(opener + r'\s*\n(.*?)\n<fence>', text, re.DOTALL): the leftmost
\* opener that leads to a match, the longest whitespace run after it, the
\* shortest content; the closing fence is also the head of a labelled one.
ClosesAt(t, k) == k < Len(t) /\ t[k] = NL /\ t[k + 1] \in { Fence, FenceJson }
Closers(t, j) == { k \in (j + 1)..Len(t) : ClosesAt(t, k) }
Breaks(t, i) ==
    { j \in (i + 1)..Len(t) :
        /\ \A m \in (i + 1)..j : t[m] = NL
        /\ Closers(t, j) # {} }
re_search_last(opener, t) ==
    LET starts == { i \in 1..Len(t) : t[i] = opener /\ Breaks(t, i) # {} }
    IN IF starts = {} THEN [ found |-> FALSE, group |-> << >> ]
       ELSE LET i == Max(starts)
                j == Max(Breaks(t, i))
                k == Min(Closers(t, j))
            IN [ found |-> TRUE, group |-> SubSeq(t, j + 1, k - 1) ]
re_search(opener, t) ==
    LET starts == { i \in 1..Len(t) : t[i] = opener /\ Breaks(t, i) # {} }
    IN IF starts = {} THEN [ found |-> FALSE, group |-> << >> ]
       ELSE LET i == Min(starts)
                j == Max(Breaks(t, i))
                k == Min(Closers(t, j))
            IN [ found |-> TRUE, group |-> SubSeq(t, j + 1, k - 1) ]

\* `if parsed_response:` and `if model_response:`
Truthy(v) ==
    CASE v.type = "NoneType" -> FALSE
      [] v.type = "dict"     -> ~v.empty
      [] OTHER               -> TRUE

\* `return None, True` of the inner handler.
HandlerResultNoRetry == [ value |-> PyNone, retry |-> FALSE ]
HandlerResult == [ value |-> PyNone, retry |-> TRUE ]

\* The decoder as a function: what one call returns, or that it raised.
InnerResult(t) ==
    LET a == Attempt(t)
    IN IF a.kind = "return"
       THEN [ raised |-> FALSE, value |-> a.value, retry |-> a.retry ]
       ELSE [ raised |-> FALSE, value |-> HandlerResult.value,
              retry |-> HandlerResult.retry ]
parse_json_from_markdown(t) ==
    LET a == Attempt(t)
        labelled == re_search(FenceJson, t)
        generic == re_search(Fence, t)
    IN IF a.kind = "return"
       THEN [ raised |-> FALSE, value |-> a.value, retry |-> a.retry ]
       ELSE IF a.kind = "AttributeError"
       THEN [ raised |-> TRUE, value |-> PyNone, retry |-> FALSE ]
       ELSE IF labelled.found THEN InnerResult(labelled.group)
       ELSE IF generic.found THEN InnerResult(generic.group)
       ELSE InnerResult(t)

\* How replies are composed: blocks, with or without prose around them.
BlockKinds == { "bare", "json", "generic" }
Blocks == [ kind : BlockKinds, body : JsonTexts \cup { Malformed } ]
Render(b) ==
    CASE b.kind = "bare"    -> << b.body >>
      [] b.kind = "json"    -> << FenceJson, NL, b.body, NL, Fence >>
      [] b.kind = "generic" -> << Fence, NL, b.body, NL, Fence >>
RECURSIVE Join(_)
Join(bs) ==
    IF bs = << >> THEN << >>
    ELSE IF Len(bs) = 1 THEN Render(bs[1])
    ELSE Render(bs[1]) \o << NL, NL >> \o Join(Tail(bs))
Compose(s) ==
    (IF s.lead THEN << Prose, NL, NL >> ELSE << >>)
    \o Join(s.blocks)
    \o (IF s.trail THEN << NL, NL, Prose >> ELSE << >>)
Shapes ==
    [ composed : { TRUE }, lead : BOOLEAN, trail : BOOLEAN,
      blocks : UNION { [ 1..n -> Blocks ] : n \in 0..MaxBlocks } ]
RawShape ==
    [ composed |-> FALSE, lead |-> FALSE, trail |-> FALSE, blocks |-> << >> ]
RawTokens ==
    { FenceJson, Fence, NL, Prose, "{\"success\": false}", Malformed }
RawTexts == UNION { [ 1..n -> RawTokens ] : n \in 0..MaxRaw }

\* A reply carrying one value in one of the three framings.
Encode(x, style, lead, trail) ==
    Compose([ composed |-> TRUE, lead |-> lead, trail |-> trail,
              blocks |-> << [ kind |-> style, body |-> json_dumps(x) ] >> ])

\* No request is being served.
EndpointsIdle ==
    /\ endpoint = "idle"
    /\ body = [ json |-> "null", topic |-> "missing", user_id |-> "missing" ]
    /\ apc = "idle"
    /\ sessions = {}
    /\ created = {}
    /\ deleted = {}
    /\ invoked = {}
    /\ validation = << >>
    /\ model_response = [ found |-> FALSE, text |-> << >> ]
    /\ response = << >>

\* No helper is being applied.
HelpersIdle ==
    /\ hpc = "idle"
    /\ title = << >>
    /\ slug = << >>
    /\ words = [ brief |-> 0, deep |-> 0, impact |-> 0 ]
    /\ estimated_time = 0
    /\ all_categories = << >>
    /\ selected_category_id = None
    /\ category_id = None
    /\ topic_data = [ estimatedReadTime |-> 0, estimatedTime |-> 0,
                      categoryId |-> None ]
    /\ metadata = [ estimated_read_time |-> 0 ]

\* No pair of invocations is running.
Invocations == { 1, 2 }
ConcurrentIdle ==
    /\ runs = [ i \in Invocations |-> [ pc |-> "idle" ] ]
    /\ shared = EmptyStore
    /\ raised = 0

DecoderIdle ==
    /\ text = << >>
    /\ shape = RawShape
    /\ dpc = "idle"
    /\ parsed_json = PyNone
    /\ should_retry = FALSE

\* -------------------------------------------------------------------- Init
Init ==
    /\ convex_url \in BOOLEAN
    /\ agent_output \in Payloads \cup InvalidPayloads
    /\ pc = "start"
    /\ topic_id = None
    /\ created_resources = [ embedding_id |-> None, block_ids |-> << >> ]
    /\ order = 0
    /\ sec = 1
    /\ e = None
    /\ cleanup_error = None
    /\ listed = << >>
    /\ notification_type = None
    /\ store = EmptyStore
    /\ result = << >>
    /\ faults = 0
    /\ calls = {}
    /\ compAttempted = {}
    /\ sweepAttempted = {}
    /\ deleteTopicCalls = 0
    /\ deleteFailed = FALSE
    /\ firstError = None
    /\ DecoderIdle
    /\ EndpointsIdle
    /\ HelpersIdle
    /\ ConcurrentIdle

\* ----------------------------------------------------------------- actions
\* Lines 158-164: the connection configuration is read before anything else.
CheckConfig ==
    /\ pc = "start"
    /\ IF ConfigMissing(convex_url)
       THEN /\ result' = << ConfigResult >>
            /\ pc' = "done"
       ELSE /\ result' = result
            /\ pc' = "parse"
    /\ UNCHANGED << endpoints, helpers, concurrent, decoder, convex_url, agent_output, topic_id, created_resources,
                    order, sec, e, cleanup_error, listed, notification_type,
                    store, faults, hist >>

\* Lines 170-263: json.loads and the metadata computed from the payload.
\* "text": null makes the description / combined_text expression raise.
\* The category lookup of validate_category_id (line 228) swallows its own
\* exceptions and writes nothing; it is not a step of this model.
ParsePayload ==
    /\ pc = "parse"
    /\ IF ~agent_output.valid
       THEN /\ e' = "JSONDecodeError"
            /\ Raised("JSONDecodeError")
            /\ pc' = OuterHandler(topic_id)
       ELSE IF agent_output.research_brief = "null"
       THEN /\ e' = "TypeError"
            /\ Raised("TypeError")
            /\ pc' = OuterHandler(topic_id)
       ELSE /\ e' = e
            /\ firstError' = firstError
            /\ pc' = "create_topic"
    /\ UNCHANGED << endpoints, helpers, concurrent, decoder, convex_url, agent_output, topic_id, created_resources,
                    order, sec, cleanup_error, listed, notification_type,
                    store, result, faults, calls, compAttempted,
                    sweepAttempted, deleteTopicCalls, deleteFailed >>

\* Lines 266-267: topics:createTopic, then the tracking record.
CreateTopic ==
    /\ pc = "create_topic"
    /\ Call("createTopic")
    /\ \/ /\ Returns
          /\ store' = createTopic(store, TopicId)
          /\ topic_id' = TopicId
          /\ created_resources' = [ embedding_id |-> None, block_ids |-> << >> ]
          /\ pc' = "create_embedding"
          /\ UNCHANGED << e, firstError >>
       \/ /\ Raises
          /\ e' = "createTopic"
          /\ Raised("createTopic")
          /\ pc' = OuterHandler(topic_id)
          /\ UNCHANGED << store, topic_id, created_resources >>
    /\ UNCHANGED << endpoints, helpers, concurrent, decoder, convex_url, agent_output, order, sec, cleanup_error,
                    listed, notification_type, result, compAttempted,
                    sweepAttempted, deleteTopicCalls, deleteFailed >>

\* Lines 271-282: research_brief["text"] (KeyError without the key), then
\* embeddings:createEmbedding; order = 0.  generate_embedding catches its
\* own exceptions and returns a zero vector, so it never raises here.
CreateEmbedding ==
    /\ pc = "create_embedding"
    /\ IF agent_output.research_brief = "missing"
       THEN /\ e' = "KeyError"
            /\ Raised("KeyError")
            /\ pc' = CompensationStep(created_resources, 1)
            /\ sec' = 1
            /\ UNCHANGED << store, created_resources, order, faults, calls >>
       ELSE /\ Call("createEmbedding")
            /\ \/ /\ Returns
                  /\ store' = createEmbedding(store, EmbeddingId, topic_id)
                  /\ created_resources' =
                        [created_resources EXCEPT !.embedding_id = EmbeddingId]
                  /\ order' = 0
                  /\ sec' = 1
                  /\ pc' = "create_blocks"
                  /\ UNCHANGED << e, firstError >>
               \/ /\ Raises
                  /\ e' = "createEmbedding"
                  /\ Raised("createEmbedding")
                  /\ pc' = CompensationStep(created_resources, 1)
                  /\ sec' = 1
                  /\ UNCHANGED << store, created_resources, order >>
    /\ UNCHANGED << endpoints, helpers, concurrent, decoder, convex_url, agent_output, topic_id, cleanup_error, listed,
                    notification_type, result, compAttempted, sweepAttempted,
                    deleteTopicCalls, deleteFailed >>

\* Lines 284-407: the seven conditional blocks:createBlock calls, one
\* section per step, in the order of Sections.
CreateBlock ==
    /\ pc = "create_blocks"
    /\ sec <= Len(Sections)
    /\ LET step == Sections[sec]
           after == AfterBlocks(sec)
       IN IF HasContent(agent_output, step)
          THEN /\ Call("createBlock")
               /\ \/ /\ Returns
                     /\ store' = createBlock(store, step, topic_id, step, order)
                     /\ created_resources' =
                           [created_resources EXCEPT
                               !.block_ids = TrackBlock(@, step)]
                     /\ order' = NextOrder(order)
                     /\ sec' = sec + 1
                     /\ pc' = after
                     /\ UNCHANGED << e, firstError >>
                  \/ /\ Raises
                     /\ e' = "createBlock"
                     /\ Raised("createBlock")
                     /\ pc' = CompensationStep(created_resources, 1)
                     /\ sec' = 1
                     /\ UNCHANGED << store, created_resources, order >>
          ELSE /\ sec' = sec + 1
               /\ pc' = after
               /\ UNCHANGED << store, created_resources, order, e, faults,
                               calls, firstError >>
    /\ UNCHANGED << endpoints, helpers, concurrent, decoder, convex_url, agent_output, topic_id, cleanup_error, listed,
                    notification_type, result, compAttempted, sweepAttempted,
                    deleteTopicCalls, deleteFailed >>

\* Lines 412-414: topics:publishTopic when publish_immediately.
Publish ==
    /\ pc = "publish"
    /\ IF agent_output.publish_immediately
       THEN /\ Call("publishTopic")
            /\ \/ /\ Returns
                  /\ store' = publishTopic(store, topic_id)
                  /\ pc' = "notify_lookup"
                  /\ UNCHANGED << e, sec, firstError >>
               \/ /\ Raises
                  /\ e' = "publishTopic"
                  /\ Raised("publishTopic")
                  /\ pc' = CompensationStep(created_resources, 1)
                  /\ sec' = 1
                  /\ store' = store
       ELSE /\ pc' = "notify_lookup"
            /\ UNCHANGED << store, e, sec, faults, calls, firstError >>
    /\ UNCHANGED << endpoints, helpers, concurrent, decoder, convex_url, agent_output, topic_id, created_resources,
                    order, cleanup_error, listed, notification_type, result,
                    compAttempted, sweepAttempted, deleteTopicCalls,
                    deleteFailed >>

\* ------------------------------------------- list-based compensation
\* Lines 420-425: one blocks:deleteBlock per tracked id; a failure is
\* printed and the loop goes on.
CompDeleteBlock ==
    /\ pc = "comp_blocks"
    /\ sec <= Len(created_resources.block_ids)
    /\ LET block_id == created_resources.block_ids[sec]
           next == CompensationStep(created_resources, sec + 1)
       IN /\ Call("deleteBlock")
          /\ compAttempted' = compAttempted \cup {block_id}
          /\ sec' = sec + 1
          /\ \/ /\ Returns
                /\ store' = deleteBlock(store, block_id)
                /\ pc' = next
                /\ UNCHANGED << cleanup_error, deleteFailed >>
             \/ /\ Raises
                /\ cleanup_error' = "deleteBlock"
                /\ deleteFailed' = (deleteFailed \/ Holds(store, block_id))
                /\ pc' = AfterCleanupError(next)
                /\ store' = store
    /\ UNCHANGED << endpoints, helpers, concurrent, decoder, convex_url, agent_output, topic_id, created_resources,
                    order, e, listed, notification_type, result,
                    sweepAttempted, deleteTopicCalls, firstError >>

\* Lines 427-432: embeddings:deleteEmbedding if an id was recorded.
CompDeleteEmbedding ==
    /\ pc = "comp_embedding"
    /\ Call("deleteEmbedding")
    /\ compAttempted' = compAttempted \cup {created_resources.embedding_id}
    /\ \/ /\ Returns
          /\ store' = deleteEmbedding(store, created_resources.embedding_id)
          /\ pc' = "comp_topic"
          /\ UNCHANGED << cleanup_error, deleteFailed >>
       \/ /\ Raises
          /\ cleanup_error' = "deleteEmbedding"
          /\ deleteFailed' = (deleteFailed \/ Holds(store, created_resources.embedding_id))
          /\ pc' = AfterCleanupError("comp_topic")
          /\ store' = store
    /\ UNCHANGED << endpoints, helpers, concurrent, decoder, convex_url, agent_output, topic_id, created_resources,
                    order, sec, e, listed, notification_type, result,
                    sweepAttempted, deleteTopicCalls, firstError >>

\* Lines 434-442: topics:deleteTopic, then `raise block_error`, which the
\* outer handler catches.
CompDeleteTopic ==
    /\ pc = "comp_topic"
    /\ Call("deleteTopic")
    /\ compAttempted' = compAttempted \cup {topic_id}
    /\ deleteTopicCalls' = deleteTopicCalls + 1
    /\ pc' = OuterHandler(topic_id)
    /\ \/ /\ Returns
          /\ store' = deleteTopic(store, topic_id)
          /\ e' = Reraised(e, cleanup_error)
          /\ UNCHANGED << cleanup_error, deleteFailed >>
       \/ /\ Raises
          /\ cleanup_error' = "deleteTopic"
          /\ deleteFailed' = (deleteFailed \/ Holds(store, topic_id))
          /\ e' = Reraised(e, "deleteTopic")
          /\ store' = store
    /\ UNCHANGED << endpoints, helpers, concurrent, decoder, convex_url, agent_output, topic_id, created_resources,
                    order, sec, listed, notification_type, result,
                    sweepAttempted, firstError >>

\* ------------------------------------------------- query-based sweep
\* Line 499: blocks:getBlocksByTopicId; a failure ends the sweep (line 521).
SweepListBlocks ==
    /\ pc = "sweep_list_blocks"
    /\ Call("getBlocksByTopicId")
    /\ sec' = 1
    /\ \/ /\ Returns
          /\ LET blocks == RowsOfTopic(store.blocks, topic_id)
             IN /\ listed' = [ k \in 1..Len(blocks) |-> blocks[k].id ]
                /\ pc' = IF Len(blocks) = 0 THEN "sweep_list_embeddings"
                                            ELSE "sweep_blocks"
          /\ cleanup_error' = cleanup_error
       \/ /\ Raises
          /\ cleanup_error' = "getBlocksByTopicId"
          /\ listed' = << >>
          /\ pc' = AfterListBlocksError
    /\ UNCHANGED << endpoints, helpers, concurrent, decoder, convex_url, agent_output, topic_id, created_resources,
                    order, e, notification_type, store, result, compAttempted,
                    sweepAttempted, deleteTopicCalls, deleteFailed,
                    firstError >>

\* Lines 500-504: blocks:deleteBlock for each listed block.
SweepDeleteBlock ==
    /\ pc = "sweep_blocks"
    /\ sec <= Len(listed)
    /\ Call("deleteBlock")
    /\ sweepAttempted' = sweepAttempted \cup {listed[sec]}
    /\ sec' = sec + 1
    /\ pc' = IF sec = Len(listed) THEN "sweep_list_embeddings"
                                  ELSE "sweep_blocks"
    /\ \/ /\ Returns
          /\ store' = deleteBlock(store, listed[sec])
          /\ UNCHANGED << cleanup_error, deleteFailed >>
       \/ /\ Raises
          /\ cleanup_error' = "deleteBlock"
          /\ deleteFailed' = (deleteFailed \/ Holds(store, listed[sec]))
          /\ store' = store
    /\ UNCHANGED << endpoints, helpers, concurrent, decoder, convex_url, agent_output, topic_id, created_resources,
                    order, e, listed, notification_type, result,
                    compAttempted, deleteTopicCalls, firstError >>

\* Line 508: embeddings:getEmbeddingsByTopicId; a failure is printed
\* (line 514) and the sweep goes on to the topic.
SweepListEmbeddings ==
    /\ pc = "sweep_list_embeddings"
    /\ Call("getEmbeddingsByTopicId")
    /\ sec' = 1
    /\ \/ /\ Returns
          /\ LET embeddings == RowsOfTopic(store.embeddings, topic_id)
             IN /\ listed' = [ k \in 1..Len(embeddings) |-> embeddings[k].id ]
                /\ pc' = IF Len(embeddings) = 0 THEN "sweep_topic"
                                                ELSE "sweep_embeddings"
          /\ cleanup_error' = cleanup_error
       \/ /\ Raises
          /\ cleanup_error' = "getEmbeddingsByTopicId"
          /\ listed' = << >>
          /\ pc' = "sweep_topic"
    /\ UNCHANGED << endpoints, helpers, concurrent, decoder, convex_url, agent_output, topic_id, created_resources,
                    order, e, notification_type, store, result, compAttempted,
                    sweepAttempted, deleteTopicCalls, deleteFailed,
                    firstError >>

\* Lines 509-513: embeddings:deleteEmbedding for each listed embedding.
SweepDeleteEmbedding ==
    /\ pc = "sweep_embeddings"
    /\ sec <= Len(listed)
    /\ Call("deleteEmbedding")
    /\ sweepAttempted' = sweepAttempted \cup {listed[sec]}
    /\ sec' = sec + 1
    /\ pc' = IF sec = Len(listed) THEN "sweep_topic" ELSE "sweep_embeddings"
    /\ \/ /\ Returns
          /\ store' = deleteEmbedding(store, listed[sec])
          /\ UNCHANGED << cleanup_error, deleteFailed >>
       \/ /\ Raises
          /\ cleanup_error' = "deleteEmbedding"
          /\ deleteFailed' = (deleteFailed \/ Holds(store, listed[sec]))
          /\ store' = store
    /\ UNCHANGED << endpoints, helpers, concurrent, decoder, convex_url, agent_output, topic_id, created_resources,
                    order, e, listed, notification_type, result,
                    compAttempted, deleteTopicCalls, firstError >>

\* Lines 517-522: topics:deleteTopic closes the sweep.
SweepDeleteTopic ==
    /\ pc = "sweep_topic"
    /\ Call("deleteTopic")
    /\ sweepAttempted' = sweepAttempted \cup {topic_id}
    /\ deleteTopicCalls' = deleteTopicCalls + 1
    /\ pc' = "error_notification"
    /\ \/ /\ Returns
          /\ store' = deleteTopic(store, topic_id)
          /\ UNCHANGED << cleanup_error, deleteFailed >>
       \/ /\ Raises
          /\ cleanup_error' = "deleteTopic"
          /\ deleteFailed' = (deleteFailed \/ Holds(store, topic_id))
          /\ store' = store
    /\ UNCHANGED << endpoints, helpers, concurrent, decoder, convex_url, agent_output, topic_id, created_resources,
                    order, sec, e, listed, notification_type, result,
                    compAttempted, firstError >>

\* ------------------------------------------------------ notifications
\* Lines 444-450: notifications:getNotificationTypes on the success path.
\* The call is outside the inner try: when it raises, the outer handler
\* catches it.
NotifyLookup ==
    /\ pc = "notify_lookup"
    /\ Call("getNotificationTypes")
    /\ \/ /\ Returns
          /\ \E found \in BOOLEAN :
                /\ notification_type' = IF found THEN "found" ELSE "notfound"
                /\ pc' = IF found THEN "notify_write" ELSE "return_success"
          /\ UNCHANGED << e, firstError >>
       \/ /\ Raises
          /\ notification_type' = "raised"
          /\ e' = "getNotificationTypes"
          /\ Raised("getNotificationTypes")
          /\ pc' = OuterHandler(topic_id)
    /\ UNCHANGED << endpoints, helpers, concurrent, decoder, convex_url, agent_output, topic_id, created_resources,
                    order, sec, cleanup_error, listed, store, result,
                    compAttempted, sweepAttempted, deleteTopicCalls,
                    deleteFailed >>

\* Lines 452-475: notifications:createNotification; a failure is printed.
NotifyWrite ==
    /\ pc = "notify_write"
    /\ Call("createNotification")
    /\ \/ /\ Returns
          /\ store' = createNotification(store, "topic_generated")
          /\ pc' = AfterNotifyWrite
          /\ UNCHANGED << e, cleanup_error, firstError >>
       \/ /\ Raises
          /\ store' = store
          /\ cleanup_error' = "createNotification"
          /\ pc' = AfterNotifyWriteError(topic_id)
          /\ e' = IF pc' = "return_success" THEN e ELSE "createNotification"
          /\ Raised("createNotification")
    /\ UNCHANGED << endpoints, helpers, concurrent, decoder, convex_url, agent_output, topic_id, created_resources,
                    order, sec, listed, notification_type, result,
                    compAttempted, sweepAttempted, deleteTopicCalls,
                    deleteFailed >>

\* Lines 479-490.
ReturnSuccess ==
    /\ pc = "return_success"
    /\ result' = << SuccessResult(topic_id, agent_output) >>
    /\ pc' = "done"
    /\ UNCHANGED << endpoints, helpers, concurrent, decoder, convex_url, agent_output, topic_id, created_resources,
                    order, sec, e, cleanup_error, listed, notification_type,
                    store, faults, hist >>

\* Lines 524-535: notifications:getNotificationTypes in the outer handler;
\* a failure is printed (line 554).
ErrorLookup ==
    /\ pc = "error_notification"
    /\ Call("getNotificationTypes")
    /\ \/ /\ Returns
          /\ \E found \in BOOLEAN :
                /\ notification_type' = IF found THEN "found" ELSE "notfound"
                /\ pc' = IF ShouldNotifyError(found, agent_output.created_by)
                         THEN "error_write" ELSE "return_failure"
          /\ cleanup_error' = cleanup_error
       \/ /\ Raises
          /\ notification_type' = "raised"
          /\ cleanup_error' = "getNotificationTypes"
          /\ pc' = "return_failure"
    /\ UNCHANGED << endpoints, helpers, concurrent, decoder, convex_url, agent_output, topic_id, created_resources,
                    order, sec, e, listed, store, result, compAttempted,
                    sweepAttempted, deleteTopicCalls, deleteFailed,
                    firstError >>

\* Lines 536-551: notifications:createNotification for the error; a
\* failure is printed.
ErrorWrite ==
    /\ pc = "error_write"
    /\ Call("createErrorNotification")
    /\ pc' = "return_failure"
    /\ \/ /\ Returns
          /\ store' = createNotification(store, "error")
          /\ cleanup_error' = cleanup_error
       \/ /\ Raises
          /\ store' = store
          /\ cleanup_error' = "createNotification"
    /\ UNCHANGED << endpoints, helpers, concurrent, decoder, convex_url, agent_output, topic_id, created_resources,
                    order, sec, e, listed, notification_type, result,
                    compAttempted, sweepAttempted, deleteTopicCalls,
                    deleteFailed, firstError >>

\* Lines 557-563.
ReturnFailure ==
    /\ pc = "return_failure"
    /\ result' = << FailureResult(e) >>
    /\ pc' = "done"
    /\ UNCHANGED << endpoints, helpers, concurrent, decoder, convex_url, agent_output, topic_id, created_resources,
                    order, sec, e, cleanup_error, listed, notification_type,
                    store, faults, hist >>

Next ==
    \/ CheckConfig
    \/ ParsePayload
    \/ CreateTopic
    \/ CreateEmbedding
    \/ CreateBlock
    \/ Publish
    \/ CompDeleteBlock
    \/ CompDeleteEmbedding
    \/ CompDeleteTopic
    \/ SweepListBlocks
    \/ SweepDeleteBlock
    \/ SweepListEmbeddings
    \/ SweepDeleteEmbedding
    \/ SweepDeleteTopic
    \/ NotifyLookup
    \/ NotifyWrite
    \/ ReturnSuccess
    \/ ErrorLookup
    \/ ErrorWrite
    \/ ReturnFailure

Spec == Init /\ [][Next]_vars

\* Every store call returns or raises, so a step that can be taken is
\* eventually taken.
FairSpec == Spec /\ WF_vars(Next)

\* ------------------------------------------------ decoder: one call
\* The variables of the insertion workflow.
workflow ==
    << convex_url, agent_output, pc, topic_id, created_resources, order, sec,
       e, cleanup_error, listed, notification_type, store, result, faults,
       hist >>

\* No workflow invocation is in progress.
WorkflowIdle ==
    /\ convex_url = TRUE
    /\ agent_output = CHOOSE p \in InvalidPayloads : p.created_by
    /\ pc = "idle"
    /\ topic_id = None
    /\ created_resources = [ embedding_id |-> None, block_ids |-> << >> ]
    /\ order = 0
    /\ sec = 1
    /\ e = None
    /\ cleanup_error = None
    /\ listed = << >>
    /\ notification_type = None
    /\ store = EmptyStore
    /\ result = << >>
    /\ faults = 0
    /\ calls = {}
    /\ compAttempted = {}
    /\ sweepAttempted = {}
    /\ deleteTopicCalls = 0
    /\ deleteFailed = FALSE
    /\ firstError = None

\* parse_json_from_markdown(text) is called with a composed reply or with
\* any short token sequence.
DecoderInit ==
    /\ \/ \E s \in Shapes : shape = s /\ text = Compose(s)
       \/ \E t \in RawTexts : shape = RawShape /\ text = t
    /\ dpc = "direct"
    /\ parsed_json = PyNone
    /\ should_retry = FALSE
    /\ WorkflowIdle
    /\ EndpointsIdle
    /\ HelpersIdle
    /\ ConcurrentIdle

\* `return parsed_json, should_retry`
Return(o) ==
    /\ parsed_json' = o.value
    /\ should_retry' = o.retry
    /\ dpc' = "returned"

\* An attempt inside the inner try: JSONDecodeError and AttributeError both
\* end in the handler's return.
InnerAttempt(t) ==
    LET a == Attempt(t)
    IN IF a.kind = "return" THEN Return(a) ELSE Return(HandlerResult)

\* Lines 89-94: json.loads(text) directly.  Only JSONDecodeError is caught
\* by the outer handler; the AttributeError of .get on a value that is not
\* a dict leaves the function.
DirectParse ==
    /\ dpc = "direct"
    /\ LET a == Attempt(text)
       IN CASE a.kind = "return" -> Return(a)
            [] a.kind = "JSONDecodeError" ->
                  /\ dpc' = "json_fence"
                  /\ UNCHANGED << parsed_json, should_retry >>
            [] a.kind = "AttributeError" ->
                  /\ dpc' = "raised"
                  /\ UNCHANGED << parsed_json, should_retry >>
    /\ UNCHANGED << text, shape, workflow, endpoints, helpers, concurrent >>

\* Lines 100-107: the first block fenced with the json label.
JsonFence ==
    /\ dpc = "json_fence"
    /\ LET match == re_search(FenceJson, text)
       IN IF match.found
          THEN InnerAttempt(match.group)
          ELSE /\ dpc' = "generic_fence"
               /\ UNCHANGED << parsed_json, should_retry >>
    /\ UNCHANGED << text, shape, workflow, endpoints, helpers, concurrent >>

\* Lines 110-117: the first block fenced without a label.
GenericFence ==
    /\ dpc = "generic_fence"
    /\ LET match == re_search(Fence, text)
       IN IF match.found
          THEN InnerAttempt(match.group)
          ELSE /\ dpc' = "last_parse"
               /\ UNCHANGED << parsed_json, should_retry >>
    /\ UNCHANGED << text, shape, workflow, endpoints, helpers, concurrent >>

\* Lines 120-122: json.loads(text) once more.
LastParse ==
    /\ dpc = "last_parse"
    /\ InnerAttempt(text)
    /\ UNCHANGED << text, shape, workflow, endpoints, helpers, concurrent >>

DecoderNext ==
    \/ DirectParse
    \/ JsonFence
    \/ GenericFence
    \/ LastParse

SpecDecoder == DecoderInit /\ [][DecoderNext]_vars

\* ------------------------------------------- the two request handlers
\* check_topic, check_topic_validity and generate_topic
\* (src/generator_api/app.py).  One step per call to an agent service.

\* HTTP status codes the handlers answer with.
StatusOk == 200
StatusNonRetryable == 489
StatusError == 500

Checker == "topic-checker"
Generator == "topic-generator"

\* What data.get('topic') / data.get('user_id') can be: absent, "", "  ",
\* a number, a text.
FieldKinds == { "missing", "empty", "blank", "number", "text" }
\* Request bodies: one get_json() raises on, JSON null or {}, an object.
Bodies ==
    [ json : { "malformed", "null" }, topic : { "missing" },
      user_id : { "missing" } ]
    \cup [ json : { "object" }, topic : FieldKinds, user_id : FieldKinds ]

\* `if not topic`, `if not user_id`
Falsy(field) == field \in { "missing", "empty" }
\* topic.strip() raises AttributeError on a value that is not a string.
CanStrip(field) == field # "number"

\* Replies extract_model_response can hand back: None, or the text of a part.
ReplyTexts ==
    { << d >> : d \in JsonTexts \cup { Malformed, Prose } }
    \cup { Render([ kind |-> "json", body |-> d ]) :
              d \in JsonTexts \cup { Malformed } }
    \cup { << >> }
ModelResponses ==
    { [ found |-> FALSE, text |-> << >> ] }
    \cup { [ found |-> TRUE, text |-> t ] : t \in ReplyTexts }
\* `if model_response:`
HasReply(r) == r.found /\ r.text # << >>

\* The error texts of the responses.
Message(m) == [ msg |-> m, exc |-> None ]
NoError == Message(None)

\* The responses the handlers build.
RejectUnmarked(msg) ==
    [ status |-> StatusNonRetryable, marker |-> FALSE, error |-> msg,
      payload |-> PyNone ]
Reject(msg) ==
    [ status |-> StatusNonRetryable, marker |-> TRUE, error |-> msg,
      payload |-> PyNone ]
FailMarked(msg) ==
    [ status |-> StatusError, marker |-> TRUE, error |-> msg,
      payload |-> PyNone ]
Fail(msg) ==
    [ status |-> StatusError, marker |-> FALSE, error |-> msg,
      payload |-> PyNone ]
Answer(code, value) ==
    [ status |-> code, marker |-> FALSE, error |-> NoError,
      payload |-> value ]

\* `return jsonify(parsed_response), 500` / `, 200` of generate_topic.
StatusFor(retry) == IF retry THEN StatusError ELSE StatusOk

\* What check_topic_validity returns.
Validated(code, msg, value) ==
    [ status_code |-> code, error |-> msg, payload |-> value ]
\* f"Internal server error: {str(e)}"
InternalError(exc) == [ msg |-> "Internal server error", exc |-> exc ]

Respond(r) ==
    /\ response' = << r >>
    /\ apc' = "done"

ApiInit ==
    /\ endpoint \in { "check-topic", "generate-topic" }
    /\ body \in Bodies
    /\ apc = "validate"
    /\ sessions = {}
    /\ created = {}
    /\ deleted = {}
    /\ invoked = {}
    /\ validation = << >>
    /\ model_response = [ found |-> FALSE, text |-> << >> ]
    /\ response = << >>
    /\ WorkflowIdle
    /\ DecoderIdle
    /\ HelpersIdle
    /\ ConcurrentIdle

\* Lines 141-160 and 218-239: get_json, the three checks, then strip.
RequestValidation ==
    /\ apc = "validate"
    /\ IF body.json = "malformed"
       THEN Respond(Fail(InternalError("get_json")))
       ELSE IF body.json = "null" THEN Respond(Reject(Message("No JSON data provided")))
       ELSE IF Falsy(body.topic) THEN Respond(Reject(Message("Topic is required")))
       ELSE IF Falsy(body.user_id) THEN Respond(Reject(Message("User ID is required")))
       ELSE IF ~CanStrip(body.topic) \/ ~CanStrip(body.user_id)
       THEN Respond(Fail(InternalError("strip")))
       ELSE /\ apc' = "checker_session"
            /\ response' = response
    /\ UNCHANGED << endpoint, body, created, deleted, sessions, invoked, validation,
                    model_response, workflow, decoder, helpers, concurrent >>

\* Lines 181-183: create_session against the topic checker.
CheckerCreateSession ==
    /\ apc = "checker_session"
    /\ sessions' = sessions \cup { Checker }
    /\ \/ /\ apc' = "checker_run"
          /\ created' = created \cup { Checker }
          /\ validation' = validation
       \/ /\ apc' = "validated"
          /\ created' = created
          /\ validation' =
                << Validated(StatusError, Message("Failed to create session"),
                             PyNone) >>
       \/ /\ apc' = "validated"
          /\ created' = created
          /\ validation' =
                << Validated(StatusError, InternalError("create_session"),
                             PyNone) >>
    /\ UNCHANGED << endpoint, body, deleted, invoked, model_response, response,
                    workflow, decoder, helpers, concurrent >>

\* Lines 186-194: run_service, then extract_model_response.
CheckerRun ==
    /\ apc = "checker_run"
    /\ invoked' = invoked \cup { Checker }
    /\ \/ /\ \E r \in ModelResponses : model_response' = r
          /\ apc' = "checker_finish"
          /\ validation' = validation
       \/ /\ apc' = "validated"
          /\ validation' =
                << Validated(StatusError, Message("Failed to check topic"), PyNone) >>
          /\ model_response' = model_response
       \/ /\ apc' = "validated"
          /\ validation' =
                << Validated(StatusError, InternalError("run_service"),
                             PyNone) >>
          /\ model_response' = model_response
    /\ UNCHANGED << endpoint, body, created, deleted, sessions, response, workflow, decoder,
                    helpers, concurrent >>

\* Lines 197-210: delete_session, then the reply is decoded.
CheckerFinish ==
    /\ apc = "checker_finish"
    /\ apc' = "validated"
    /\ deleted' = deleted \cup { Checker }
    /\ \/ validation' =
             << Validated(StatusError, InternalError("delete_session"),
                          PyNone) >>
       \/ validation' =
             IF HasReply(model_response)
             THEN LET d == parse_json_from_markdown(model_response.text)
                  IN IF d.raised
                     THEN << Validated(StatusError,
                                       InternalError("AttributeError"),
                                       PyNone) >>
                     ELSE IF Truthy(d.value)
                     THEN << Validated(StatusOk, NoError, d.value) >>
                     ELSE << Validated(StatusError,
                                       Message("Invalid JSON response from model"),
                                       PyNone) >>
             ELSE << Validated(StatusError,
                               Message("No valid response from topic checker"),
                               PyNone) >>
    /\ UNCHANGED << endpoint, body, created, sessions, invoked,
                    model_response, response, workflow, decoder, helpers, concurrent >>

\* Line 165: check_topic answers with what the check returned.
CheckTopicReturn ==
    /\ apc = "validated"
    /\ endpoint = "check-topic"
    /\ LET v == validation[1]
       IN Respond([ status |-> v.status_code, marker |-> FALSE,
                    error |-> v.error, payload |-> v.payload ])
    /\ UNCHANGED << endpoint, body, created, deleted, sessions, invoked, validation,
                    model_response, workflow, decoder, helpers, concurrent >>

\* Lines 245-256: generate_topic passes a failed check on, rejects an
\* INVALID topic and goes on otherwise.
GenerateAfterCheck ==
    /\ apc = "validated"
    /\ endpoint = "generate-topic"
    /\ LET v == validation[1]
       IN IF v.status_code # StatusOk
          THEN Respond([ status |-> v.status_code, marker |-> FALSE,
                         error |-> v.error, payload |-> v.payload ])
          ELSE IF v.payload.status = "INVALID"
          THEN Respond(Reject(Message("Topic is invalid")))
          ELSE /\ apc' = "generator_session"
               /\ response' = response
    /\ UNCHANGED << endpoint, body, created, deleted, sessions, invoked, validation,
                    model_response, workflow, decoder, helpers, concurrent >>

\* Lines 266-268: create_session against the topic generator.
GeneratorCreateSession ==
    /\ apc = "generator_session"
    /\ sessions' = sessions \cup { Generator }
    /\ \/ /\ apc' = "generator_run"
          /\ created' = created \cup { Generator }
          /\ response' = response
       \/ /\ Respond(Fail(Message("Failed to create session for topic generation")))
          /\ created' = created
       \/ /\ Respond(Fail(InternalError("create_session")))
          /\ created' = created
    /\ UNCHANGED << endpoint, body, deleted, invoked, validation, model_response,
                    workflow, decoder, helpers, concurrent >>

\* Lines 271-285: run_service, then extract_model_response.
GeneratorRun ==
    /\ apc = "generator_run"
    /\ invoked' = invoked \cup { Generator }
    /\ \/ /\ \E r \in ModelResponses : model_response' = r
          /\ apc' = "generator_finish"
          /\ response' = response
       \/ /\ Respond(Fail(Message("Failed to generate topic content")))
          /\ model_response' = model_response
       \/ /\ Respond(Fail(InternalError("run_service")))
          /\ model_response' = model_response
    /\ UNCHANGED << endpoint, body, created, deleted, sessions, validation, workflow, decoder,
                    helpers, concurrent >>

\* Lines 288-307: delete_session, then the reply is decoded and the status
\* follows should_retry.
GeneratorFinish ==
    /\ apc = "generator_finish"
    /\ deleted' = deleted \cup { Generator }
    /\ \/ Respond(Fail(InternalError("delete_session")))
       \/ IF HasReply(model_response)
          THEN LET d == parse_json_from_markdown(model_response.text)
               IN IF d.raised
                  THEN Respond(Fail(InternalError("AttributeError")))
                  ELSE IF Truthy(d.value)
                  THEN Respond(Answer(StatusFor(d.retry), d.value))
                  ELSE Respond(Fail(Message("Invalid JSON response from model")))
          ELSE Respond(Fail(Message("No valid response from topic generator")))
    /\ UNCHANGED << endpoint, body, created, sessions, invoked, validation,
                    model_response, workflow, decoder, helpers, concurrent >>

ApiNext ==
    \/ RequestValidation
    \/ CheckerCreateSession
    \/ CheckerRun
    \/ CheckerFinish
    \/ CheckTopicReturn
    \/ GenerateAfterCheck
    \/ GeneratorCreateSession
    \/ GeneratorRun
    \/ GeneratorFinish

SpecApi == ApiInit /\ [][ApiNext]_vars

\* ------------------------------------------- topic metadata helpers
\* create_slug, estimate_read_time, validate_category_id and the topic
\* fields computed from them (src/agents/topic-generator/test_insertion.py,
\* lines 78-130 and 188-259).

\* Longest title drawn, in characters.
MaxTitle == 5
\* Largest word count of the brief text.
MaxWords == 240
\* Largest number of rows in the category list.
MaxCategories == 2

\* Reading speed, words per minute.
WordsPerMinute == 225

\* Characters titles are made of: letters in both cases, a digit, blank,
\* hyphen, punctuation.
TitleChars == { "a", "B", "7", " ", "-", "!" }
ScenarioD ==
    << " ", " ", "H", "e", "l", "l", "o", ",", " ", "W", "o", "r", "l", "d",
       "!", "!", " " >>
Titles == UNION { [ 1..n -> TitleChars ] : n \in 0..MaxTitle } \cup { ScenarioD }

Whitespace == { " " }
Hyphen == "-"
\* str.lower() on one character.
lower(c) ==
    CASE c = "B" -> "b"
      [] c = "H" -> "h"
      [] c = "W" -> "w"
      [] OTHER   -> c
\* The characters of [a-z0-9] that occur.
LowerAlnum == { "a", "b", "7", "h", "e", "l", "o", "w", "r", "d" }

\* title.lower()
Lowered(s) == [ i \in 1..Len(s) |-> lower(s[i]) ]
\* s.strip(chars)
StripChars(s, chars) ==
    LET kept == { i \in 1..Len(s) : s[i] \notin chars }
    IN IF kept = {} THEN << >> ELSE SubSeq(s, Min(kept), Max(kept))
\* re.sub(r'[^a-z0-9\s-]', '', slug)
RemoveOthers(s) ==
    SelectSeq(s, LAMBDA c : c \in LowerAlnum \cup Whitespace \cup { Hyphen })
\* re.sub(class+, '-', slug): every maximal run of the class becomes one
\* hyphen.
RECURSIVE ReplaceRuns(_, _)
ReplaceRuns(s, class) ==
    IF s = << >> THEN << >>
    ELSE IF Head(s) \notin class THEN << Head(s) >> \o ReplaceRuns(Tail(s), class)
    ELSE IF Len(s) > 1 /\ s[2] \in class THEN ReplaceRuns(Tail(s), class)
    ELSE << Hyphen >> \o ReplaceRuns(Tail(s), class)
\* slug.strip('-')
TrimHyphensNot(s) == s
TrimHyphens(s) == StripChars(s, { Hyphen })

create_slug(t) ==
    LET lowered == StripChars(Lowered(t), Whitespace)
        cleaned == RemoveOthers(lowered)
        dashed == ReplaceRuns(cleaned, Whitespace)
        single == ReplaceRuns(dashed, { Hyphen })
    IN TrimHyphens(single)

\* round(n / d) of Python: to the nearest integer, a tie to the even one.
RoundDown(n, d) == n \div d
Round(n, d) ==
    LET q == n \div d
        r == n % d
    IN IF 2 * r < d THEN q
       ELSE IF 2 * r > d THEN q + 1
       ELSE IF q % 2 = 0 THEN q ELSE q + 1
\* len(combined_text.split()): the three texts are joined with blanks.
WordCount(w) == w.brief + w.deep + w.impact
estimate_read_time(n) ==
    LET minutes == Round(n, WordsPerMinute)
    IN IF minutes > 1 THEN minutes ELSE 1

\* The category list: rows with distinct ids.
CategoryIds == { "c1", "c2", "c3" }
CategoryNames == { "Science", "Other", "OTHER" }
CategoryLists ==
    { l \in UNION { [ 1..n -> [ id : CategoryIds, name : CategoryNames ] ] :
                       n \in 0..MaxCategories } :
        \A i, j \in 1..Len(l) : l[i].id = l[j].id => i = j }
\* selected_category of the payload: absent or null, "", a listed id, an
\* id that is not listed.
CandidateIds == { None, "" } \cup CategoryIds \cup { "c9" }
\* category["name"].lower()
lower_name_same(name) == name
lower_name(name) ==
    CASE name = "Other" -> "other"
      [] name = "OTHER" -> "other"
      [] name = "Science" -> "science"
\* Lines 103-130, the query having returned rows.
validate_category_id(candidate, rows) ==
    IF candidate \in { None, "" } THEN None
    ELSE IF \E i \in 1..Len(rows) : rows[i].id = candidate THEN candidate
    ELSE LET others ==
                 { i \in 1..Len(rows) : lower_name(rows[i].name) = "other" }
         IN IF others # {} THEN rows[Min(others)].id ELSE None

HelpersInit ==
    /\ \/ /\ hpc = "slug"
          /\ title \in Titles
          /\ words = [ brief |-> 0, deep |-> 0, impact |-> 0 ]
          /\ all_categories = << >>
          /\ selected_category_id = None
       \/ /\ hpc = "read_time"
          /\ title = << >>
          /\ words \in [ brief : 0..MaxWords, deep : { 0, WordsPerMinute },
                         impact : { 0, 1 } ]
          /\ all_categories = << >>
          /\ selected_category_id = None
       \/ /\ hpc = "category"
          /\ title = << >>
          /\ words = [ brief |-> 0, deep |-> 0, impact |-> 0 ]
          /\ all_categories \in CategoryLists
          /\ selected_category_id \in CandidateIds
    /\ slug = << >>
    /\ estimated_time = 0
    /\ category_id = None
    /\ topic_data = [ estimatedReadTime |-> 0, estimatedTime |-> 0,
                      categoryId |-> None ]
    /\ metadata = [ estimated_read_time |-> 0 ]
    /\ WorkflowIdle
    /\ DecoderIdle
    /\ EndpointsIdle
    /\ ConcurrentIdle

\* Line 242: "slug": create_slug(topic_title).
CreateSlug ==
    /\ hpc = "slug"
    /\ slug' = create_slug(title)
    /\ hpc' = "slug_done"
    /\ UNCHANGED << title, words, estimated_time, all_categories,
                    selected_category_id, category_id, topic_data, metadata,
                    workflow, decoder, endpoints, concurrent >>

\* Lines 200-205, 244, 252 and 485: the estimate and the three places it
\* is written to.
EstimateReadTime ==
    /\ hpc = "read_time"
    /\ LET minutes == estimate_read_time(WordCount(words))
       IN /\ estimated_time' = minutes
          /\ topic_data' = [ topic_data EXCEPT !.estimatedReadTime = minutes,
                                               !.estimatedTime = minutes ]
          /\ metadata' = [ estimated_read_time |-> minutes ]
    /\ hpc' = "read_time_done"
    /\ UNCHANGED << title, slug, words, all_categories, selected_category_id,
                    category_id, workflow, decoder, endpoints, concurrent >>

\* Lines 228 and 258-259: the category of the topic; the query of
\* validate_category_id returns the list or raises.
ValidateCategory ==
    /\ hpc = "category"
    /\ \/ /\ category_id' =
                IF selected_category_id \in { None, "" } THEN None
                ELSE validate_category_id(selected_category_id, all_categories)
          /\ hpc' = "category_done"
       \/ /\ selected_category_id \notin { None, "" }
          /\ category_id' = None
          /\ hpc' = "category_failed"
    /\ topic_data' = [ topic_data EXCEPT !.categoryId = category_id' ]
    /\ UNCHANGED << title, slug, words, estimated_time, all_categories,
                    selected_category_id, metadata, workflow, decoder,
                    endpoints, concurrent >>

HelpersNext ==
    \/ CreateSlug
    \/ EstimateReadTime
    \/ ValidateCategory

SpecHelpers == HelpersInit /\ [][HelpersNext]_vars

\* --------------------------------- two invocations on a shared store
\* insert_topic_to_convex called twice, the store calls of the two
\* invocations interleaved (src/agents/topic-generator/test_insertion.py,
\* lines 146-563).  The store gives every row an id of its own.

\* Largest number of store calls of the two invocations that raise.
MaxRaised == 2

\* The id the store returns to invocation i for its topic, its embedding
\* and its blocks.
TopicIdOf(i) == IF i = 1 THEN "t1" ELSE "t2"
EmbeddingIdOf(i) == IF i = 1 THEN "e1" ELSE "e2"
BlockIdOf(i, step) == TopicIdOf(i) \o "/" \o step

\* The payloads of the two invocations: the brief with or without its
\* text key, with or without quiz and summary; both invocations may carry
\* the same one.
SharedPayloads ==
    { p \in Payloads :
        /\ p.research_brief \in { "text", "missing" }
        /\ ~p.research_deep /\ p.reorder = "absent"
        /\ ~p.real_world_impact /\ ~p.final_quiz
        /\ p.publish_immediately /\ p.created_by }

StartOfRun(p) ==
    [ pc |-> "start", agent_output |-> p, topic_id |-> None,
      created_resources |-> [ embedding_id |-> None, block_ids |-> << >> ],
      order |-> 0, sec |-> 1, e |-> None, listed |-> << >>,
      result |-> << >> ]

TwoInit ==
    /\ runs \in [ Invocations -> { StartOfRun(p) : p \in SharedPayloads } ]
    /\ shared = EmptyStore
    /\ raised = 0
    /\ WorkflowIdle
    /\ DecoderIdle
    /\ EndpointsIdle
    /\ HelpersIdle

\* Invocation i takes a step; the other one stays where it is.
Becomes(i, r) == runs' = [ runs EXCEPT ![i] = r ]
CallReturns == raised' = raised
CallRaises == raised < MaxRaised /\ raised' = raised + 1
Others == << workflow, decoder, endpoints, helpers >>

\* Lines 158-176: configuration and json.loads.
ParsePayloadOf(i) ==
    LET r == runs[i]
    IN /\ r.pc = "start"
       /\ IF ConfigMissing(convex_url)
          THEN Becomes(i, [ r EXCEPT !.pc = "done", !.result = << ConfigResult >> ])
          ELSE Becomes(i, [ r EXCEPT !.pc = "create_topic" ])
       /\ UNCHANGED << shared, raised, Others >>

\* Lines 266-267.
CreateTopicOf(i) ==
    LET r == runs[i]
    IN /\ r.pc = "create_topic"
       /\ \/ /\ CallReturns
             /\ shared' = createTopic(shared, TopicIdOf(i))
             /\ Becomes(i, [ r EXCEPT !.pc = "create_embedding",
                                      !.topic_id = TopicIdOf(i) ])
          \/ /\ CallRaises
             /\ shared' = shared
             /\ Becomes(i, [ r EXCEPT !.pc = OuterHandler(r.topic_id),
                                      !.e = "createTopic" ])
       /\ UNCHANGED Others

\* Lines 271-282.
CreateEmbeddingOf(i) ==
    LET r == runs[i]
        failed(err) ==
            [ r EXCEPT !.pc = CompensationStep(r.created_resources, 1),
                       !.sec = 1, !.e = err ]
    IN /\ r.pc = "create_embedding"
       /\ IF r.agent_output.research_brief = "missing"
          THEN /\ Becomes(i, failed("KeyError"))
               /\ UNCHANGED << shared, raised >>
          ELSE \/ /\ CallReturns
                  /\ shared' = createEmbedding(shared, EmbeddingIdOf(i), r.topic_id)
                  /\ Becomes(i, [ r EXCEPT
                        !.pc = "create_blocks",
                        !.created_resources.embedding_id = EmbeddingIdOf(i),
                        !.order = 0, !.sec = 1 ])
               \/ /\ CallRaises
                  /\ shared' = shared
                  /\ Becomes(i, failed("createEmbedding"))
       /\ UNCHANGED Others

\* Lines 284-407.
CreateBlockOf(i) ==
    LET r == runs[i]
        step == Sections[r.sec]
    IN /\ r.pc = "create_blocks"
       /\ r.sec <= Len(Sections)
       /\ IF HasContent(r.agent_output, step)
          THEN \/ /\ CallReturns
                  /\ shared' = createBlock(shared, BlockIdOf(i, step), r.topic_id,
                                           step, r.order)
                  /\ Becomes(i, [ r EXCEPT
                        !.pc = AfterBlocks(r.sec),
                        !.created_resources.block_ids =
                            TrackBlock(@, BlockIdOf(i, step)),
                        !.order = NextOrder(@), !.sec = @ + 1 ])
               \/ /\ CallRaises
                  /\ shared' = shared
                  /\ Becomes(i, [ r EXCEPT
                        !.pc = CompensationStep(r.created_resources, 1),
                        !.sec = 1, !.e = "createBlock" ])
          ELSE /\ Becomes(i, [ r EXCEPT !.pc = AfterBlocks(r.sec), !.sec = @ + 1 ])
               /\ UNCHANGED << shared, raised >>
       /\ UNCHANGED Others

\* Lines 412-414.
PublishOf(i) ==
    LET r == runs[i]
    IN /\ r.pc = "publish"
       /\ IF r.agent_output.publish_immediately
          THEN \/ /\ CallReturns
                  /\ shared' = publishTopic(shared, r.topic_id)
                  /\ Becomes(i, [ r EXCEPT !.pc = "notify_lookup" ])
               \/ /\ CallRaises
                  /\ shared' = shared
                  /\ Becomes(i, [ r EXCEPT
                        !.pc = CompensationStep(r.created_resources, 1),
                        !.sec = 1, !.e = "publishTopic" ])
          ELSE /\ Becomes(i, [ r EXCEPT !.pc = "notify_lookup" ])
               /\ UNCHANGED << shared, raised >>
       /\ UNCHANGED Others

\* Lines 416-442: the inner handler deletes what created_resources lists,
\* then the topic, and raises again.
CompensateOf(i) ==
    LET r == runs[i]
        res == r.created_resources
    IN /\ r.pc \in { "comp_blocks", "comp_embedding", "comp_topic" }
       /\ \/ /\ r.pc = "comp_blocks"
             /\ r.sec <= Len(res.block_ids)
             /\ Becomes(i, [ r EXCEPT !.pc = CompensationStep(res, r.sec + 1),
                                      !.sec = @ + 1 ])
             /\ \/ CallReturns /\ shared' = deleteBlock(shared, res.block_ids[r.sec])
                \/ CallRaises /\ shared' = shared
          \/ /\ r.pc = "comp_embedding"
             /\ Becomes(i, [ r EXCEPT !.pc = "comp_topic" ])
             /\ \/ CallReturns /\ shared' = deleteEmbedding(shared, res.embedding_id)
                \/ CallRaises /\ shared' = shared
          \/ /\ r.pc = "comp_topic"
             /\ Becomes(i, [ r EXCEPT !.pc = OuterHandler(r.topic_id) ])
             /\ \/ CallReturns /\ shared' = deleteTopic(shared, r.topic_id)
                \/ CallRaises /\ shared' = shared
       /\ UNCHANGED Others

\* Lines 494-522: the outer handler queries the rows of its topic id and
\* deletes them, then the topic.
SweepOf(i) ==
    LET r == runs[i]
        blocks == RowsOfTopic(shared.blocks, r.topic_id)
        embeddings == RowsOfTopic(shared.embeddings, r.topic_id)
        ids(rows) == [ k \in 1..Len(rows) |-> rows[k].id ]
        after(next) == IF r.sec = Len(r.listed) THEN next ELSE r.pc
    IN /\ r.pc \in { "sweep_list_blocks", "sweep_blocks", "sweep_list_embeddings",
                     "sweep_embeddings", "sweep_topic" }
       /\ \/ /\ r.pc = "sweep_list_blocks"
             /\ shared' = shared
             /\ \/ /\ CallReturns
                   /\ Becomes(i, [ r EXCEPT
                         !.listed = ids(blocks), !.sec = 1,
                         !.pc = IF Len(blocks) = 0 THEN "sweep_list_embeddings"
                                                   ELSE "sweep_blocks" ])
                \/ /\ CallRaises
                   /\ Becomes(i, [ r EXCEPT !.pc = AfterListBlocksError ])
          \/ /\ r.pc = "sweep_blocks"
             /\ r.sec <= Len(r.listed)
             /\ Becomes(i, [ r EXCEPT !.pc = after("sweep_list_embeddings"),
                                      !.sec = @ + 1 ])
             /\ \/ CallReturns /\ shared' = deleteBlock(shared, r.listed[r.sec])
                \/ CallRaises /\ shared' = shared
          \/ /\ r.pc = "sweep_list_embeddings"
             /\ shared' = shared
             /\ \/ /\ CallReturns
                   /\ Becomes(i, [ r EXCEPT
                         !.listed = ids(embeddings), !.sec = 1,
                         !.pc = IF Len(embeddings) = 0 THEN "sweep_topic"
                                                       ELSE "sweep_embeddings" ])
                \/ /\ CallRaises
                   /\ Becomes(i, [ r EXCEPT !.pc = "sweep_topic" ])
          \/ /\ r.pc = "sweep_embeddings"
             /\ r.sec <= Len(r.listed)
             /\ Becomes(i, [ r EXCEPT !.pc = after("sweep_topic"), !.sec = @ + 1 ])
             /\ \/ CallReturns /\ shared' = deleteEmbedding(shared, r.listed[r.sec])
                \/ CallRaises /\ shared' = shared
          \/ /\ r.pc = "sweep_topic"
             /\ Becomes(i, [ r EXCEPT !.pc = "error_notification" ])
             /\ \/ CallReturns /\ shared' = deleteTopic(shared, r.topic_id)
                \/ CallRaises /\ shared' = shared
       /\ UNCHANGED Others

\* Lines 444-490: the success notification, then the success return.
NotifySuccessOf(i) ==
    LET r == runs[i]
    IN /\ r.pc \in { "notify_lookup", "notify_write" }
       /\ \/ /\ r.pc = "notify_lookup"
             /\ shared' = shared
             /\ \/ /\ CallReturns
                   /\ \E found \in BOOLEAN :
                         Becomes(i, [ r EXCEPT
                            !.pc = IF found THEN "notify_write" ELSE "done",
                            !.result = IF found THEN << >>
                                       ELSE << SuccessResult(r.topic_id, r.agent_output) >> ])
                \/ /\ CallRaises
                   /\ Becomes(i, [ r EXCEPT !.pc = OuterHandler(r.topic_id),
                                            !.e = "getNotificationTypes" ])
          \/ /\ r.pc = "notify_write"
             /\ Becomes(i, [ r EXCEPT
                   !.pc = "done",
                   !.result = << SuccessResult(r.topic_id, r.agent_output) >> ])
             /\ \/ CallReturns /\ shared' = createNotification(shared, "topic_generated")
                \/ CallRaises /\ shared' = shared
       /\ UNCHANGED Others

\* Lines 524-563: the error notification, then the failure return.
NotifyErrorOf(i) ==
    LET r == runs[i]
        returned == [ r EXCEPT !.pc = "done", !.result = << FailureResult(r.e) >> ]
    IN /\ r.pc \in { "error_notification", "error_write" }
       /\ \/ /\ r.pc = "error_notification"
             /\ shared' = shared
             /\ \/ /\ CallReturns
                   /\ \E found \in BOOLEAN :
                         Becomes(i, IF ShouldNotifyError(found, r.agent_output.created_by)
                                    THEN [ r EXCEPT !.pc = "error_write" ]
                                    ELSE returned)
                \/ /\ CallRaises
                   /\ Becomes(i, returned)
          \/ /\ r.pc = "error_write"
             /\ Becomes(i, returned)
             /\ \/ CallReturns /\ shared' = createNotification(shared, "error")
                \/ CallRaises /\ shared' = shared
       /\ UNCHANGED Others

TwoNext ==
    \E i \in Invocations :
        \/ ParsePayloadOf(i)
        \/ CreateTopicOf(i)
        \/ CreateEmbeddingOf(i)
        \/ CreateBlockOf(i)
        \/ PublishOf(i)
        \/ CompensateOf(i)
        \/ SweepOf(i)
        \/ NotifySuccessOf(i)
        \/ NotifyErrorOf(i)

SpecTwo == TwoInit /\ [][TwoNext]_vars

\* ------------------------------------------------------------ properties
Done == pc = "done"
Tracked == Range(created_resources.block_ids)
StoreHoldsNothing ==
    /\ store.topics = {}
    /\ store.embeddings = << >>
    /\ store.blocks = << >>
\* The first exception came from inside the tracked-resource try block.
TrackedWindow ==
    firstError \in { "KeyError", "createEmbedding", "createBlock", "publishTopic" }
\* The first exception came after that block, with topic_id assigned.
OutsideWindow == firstError = "getNotificationTypes"
InCompensation == pc \in { "comp_blocks", "comp_embedding", "comp_topic" }
AllSectionsPresent ==
    \A k \in 1..Len(Sections) : HasContent(agent_output, Sections[k])

\* C1: when create-embedding, a create-block or publish failed after the
\* topic was created and no delete of a stored row raised, the store holds
\* no topic, no embedding and no block of this invocation when the workflow
\* has returned.
C1_AllOrNothing ==
    (Done /\ TrackedWindow /\ ~deleteFailed) => StoreHoldsNothing

C1_Witness ==
    /\ Done
    /\ firstError = "createBlock"
    /\ ~deleteFailed
    /\ Len(created_resources.block_ids) >= 2
    /\ Tracked \subseteq compAttempted
    /\ StoreHoldsNothing

C3_BestEffort ==
    (TrackedWindow /\ ~InCompensation) =>
        /\ Tracked \subseteq compAttempted
        /\ (created_resources.embedding_id # None =>
               EmbeddingId \in compAttempted)
        /\ TopicId \in compAttempted
        /\ (Done => /\ Len(result) = 1
                    /\ result[1].success = FALSE)

\* The first tracked block outlived its delete call, and the later blocks,
\* the embedding and the topic were deleted all the same.
C3_Witness ==
    /\ Done
    /\ firstError = "publishTopic"
    /\ Len(created_resources.block_ids) >= 2
    /\ Ids(store.blocks) = { created_resources.block_ids[1] }
    /\ store.embeddings = << >>
    /\ store.topics = {}
    /\ sweepAttempted = {}
    /\ result = << FailureResult("publishTopic") >>

C5_BlockFailure ==
    firstError = "createBlock" =>
        /\ Len(created_resources.block_ids) = order
        /\ ("createErrorNotification" \in calls =>
               (Tracked \cup { EmbeddingId, TopicId }) \subseteq compAttempted)
        /\ (pc \in { "return_failure", "done" } =>
               ("createErrorNotification" \in calls <=>
                   (agent_output.created_by /\ notification_type = "found")))
        /\ (Done => result = << FailureResult("createBlock") >>)

\* Scenario C: block 3 of 7 fails.
C5_Witness ==
    /\ Done
    /\ firstError = "createBlock"
    /\ AllSectionsPresent
    /\ created_resources.block_ids = << "research_brief", "quiz" >>
    /\ "error" \in store.notifications
    /\ StoreHoldsNothing

\* C6: when the notification-type lookup of the success path raises, the
\* outer handler lists the blocks of the topic, attempts a delete for each
\* listed block, lists the embeddings, attempts a delete for each listed
\* embedding, and only then deletes the topic.
C6_Sweep ==
    OutsideWindow =>
        /\ (pc \in { "error_notification", "error_write", "return_failure",
                     "done" } => "getBlocksByTopicId" \in calls)
        /\ (pc = "sweep_blocks" => Range(listed) = Tracked)
        /\ (pc = "sweep_list_embeddings" => Tracked \subseteq sweepAttempted)
        /\ (pc = "sweep_topic" => Range(listed) \subseteq sweepAttempted)
        /\ (TopicId \in sweepAttempted =>
               /\ Tracked \subseteq sweepAttempted
               /\ "getEmbeddingsByTopicId" \in calls)

C6_Witness ==
    /\ Done
    /\ OutsideWindow
    /\ Len(created_resources.block_ids) = 7
    /\ sweepAttempted = Tracked \cup { EmbeddingId, TopicId }
    /\ StoreHoldsNothing

\* C7: for any single failure exactly one clean-up path runs: a failure of
\* create-embedding, create-block or publish is compensated by the
\* list-based path only, and delete-topic is attempted at most once.
C7_OnePath ==
    /\ (TrackedWindow =>
           /\ sweepAttempted = {}
           /\ "getBlocksByTopicId" \notin calls)
    /\ (OutsideWindow => compAttempted = {})
    /\ deleteTopicCalls <= 1

\* C8: when the write of the success notification raises, nothing is
\* deleted and the workflow returns success with the topic id; topic,
\* embedding and blocks stay in the store.
C8_NotifyWriteFailure ==
    firstError = "createNotification" =>
        /\ compAttempted = {}
        /\ sweepAttempted = {}
        /\ calls \cap { "deleteBlock", "deleteEmbedding", "deleteTopic" } = {}
        /\ (Done =>
               /\ result = << SuccessResult(TopicId, agent_output) >>
               /\ store.topics = { TopicId }
               /\ Ids(store.embeddings) = { EmbeddingId }
               /\ Ids(store.blocks) = Tracked)

C8_Witness ==
    /\ Done
    /\ firstError = "createNotification"
    /\ Len(created_resources.block_ids) = 7
    /\ result[1].success
    /\ Len(store.blocks) = 7

\* C9: on the success path a failure of any notification step (the type
\* lookup or the write) leaves the result success: true and deletes
\* nothing.
C9_NotificationNeverEscalated ==
    (Done /\ firstError \in { "getNotificationTypes", "createNotification" }) =>
        /\ Len(result) = 1
        /\ result[1].success
        /\ compAttempted \cup sweepAttempted = {}
        /\ store.topics = { TopicId }

\* C10: without the connection configuration the workflow returns a failure
\* result at once: no store operation is issued and the store is unchanged.
C10_MissingConfig ==
    ~convex_url =>
        /\ pc \in { "start", "done" }
        /\ calls = {}
        /\ store = EmptyStore
        /\ (Done => result = << ConfigResult >> /\ ~result[1].success)

C10_Witness ==
    /\ Done
    /\ ~convex_url
    /\ agent_output.valid
    /\ result = << ConfigResult >>

\* No section of the payload carries content: research_brief without text
\* (no key, or an empty string) and every other sub-record absent.
NoSectionPopulated ==
    /\ agent_output.valid
    /\ agent_output.research_brief \in { "missing", "empty" }
    /\ ~agent_output.quiz
    /\ ~agent_output.research_deep
    /\ agent_output.reorder = "absent"
    /\ ~agent_output.real_world_impact
    /\ ~agent_output.final_quiz
    /\ ~agent_output.flash_cards

\* C11: for every payload with no section populated, a run in which no
\* store call raises creates no block and leaves the topic row in the store
\* when the workflow has returned.
C11_ZeroSections ==
    (Done /\ convex_url /\ NoSectionPopulated /\ faults = 0)
        => /\ "createBlock" \notin calls
           /\ store.blocks = << >>
           /\ TopicId \in store.topics

\* The block sequence of the specification: brief overview, first quiz,
\* deep dive, reorder, real-world impact, final quiz, summary.
CanonicalSteps ==
    << "research_brief", "quiz", "research_deep", "reorder",
       "real_world_impact", "final_quiz", "summary" >>

\* C12: with every section present and no failing call, the workflow
\* creates exactly seven blocks, in the canonical sequence, with order
\* 0, 1, ..., 6.
C12_SevenBlocks ==
    (Done /\ convex_url /\ AllSectionsPresent /\ faults = 0)
        => /\ Len(store.blocks) = 7
           /\ \A k \in 1..7 :
                 /\ store.blocks[k].step = CanonicalSteps[k]
                 /\ store.blocks[k].order = k - 1

C12_Witness ==
    /\ Done
    /\ AllSectionsPresent
    /\ faults = 0
    /\ Len(result) = 1
    /\ result[1].success
    /\ Len(store.blocks) = 7
    /\ store.blocks[7].order = 6

\* The canonical sequence restricted to the sections of the payload that
\* are present and non-empty.
NonEmptySteps ==
    LET p == agent_output
        nonEmpty ==
            (IF p.research_brief = "text" THEN { "research_brief" } ELSE {})
            \cup (IF p.quiz THEN { "quiz" } ELSE {})
            \cup (IF p.research_deep THEN { "research_deep" } ELSE {})
            \cup (IF p.reorder = "full" THEN { "reorder" } ELSE {})
            \cup (IF p.real_world_impact THEN { "real_world_impact" } ELSE {})
            \cup (IF p.final_quiz THEN { "final_quiz" } ELSE {})
            \cup (IF p.flash_cards THEN { "summary" } ELSE {})
    IN SelectSeq(CanonicalSteps, LAMBDA step : step \in nonEmpty)

\* C13: in every reachable state, partial failing runs included, the
\* blocks created so far are the first ones of the canonical sequence
\* restricted to the non-empty sections, the k-th created block has order
\* k - 1, and an absent or empty section creates no block and uses up no
\* order value; a run that succeeds has created all n of them.
C13_OrderContiguous ==
    LET ids == created_resources.block_ids
        n == Len(NonEmptySteps)
    IN /\ Len(ids) <= n
       /\ \A k \in 1..Len(ids) : ids[k] = NonEmptySteps[k]
       /\ \A r \in 1..Len(store.blocks) :
             \E k \in 1..Len(ids) :
                 /\ store.blocks[r].id = ids[k]
                 /\ store.blocks[r].step = NonEmptySteps[k]
                 /\ store.blocks[r].order = k - 1
       /\ "deleteBlock" \notin calls
             => /\ Len(store.blocks) = Len(ids)
                /\ \A k \in 1..Len(ids) : store.blocks[k].order = k - 1
       /\ (Done /\ Len(result) = 1 /\ result[1].success /\ convex_url)
             => Len(store.blocks) = n

\* A run that skipped the first quiz, created two blocks and then failed.
C13_Witness ==
    /\ pc = "comp_blocks"
    /\ firstError = "createBlock"
    /\ ~agent_output.quiz
    /\ agent_output.reorder = "noquestion"
    /\ created_resources.block_ids = << "research_brief", "research_deep" >>
    /\ Len(store.blocks) = 2
    /\ store.blocks[2].step = "research_deep"
    /\ store.blocks[2].order = 1

DeleteCalls == { "deleteBlock", "deleteEmbedding", "deleteTopic" }

\* C14: the workflow returns success:true only when the topic, its
\* embedding and one block per non-empty section were created, publish was
\* performed when the flag is true, and no delete was issued; topic_id in
\* the result is the topic left in the store and metadata.published
\* equals the publish flag.
C14_SuccessOnlyWhenComplete ==
    (Done /\ Len(result) = 1 /\ result[1].success)
        => /\ store.topics = { TopicId }
           /\ result[1].topic_id = TopicId
           /\ Len(store.embeddings) = 1
           /\ store.embeddings[1].topicId = TopicId
           /\ Len(store.blocks) = Len(NonEmptySteps)
           /\ \A k \in 1..Len(NonEmptySteps) :
                 /\ store.blocks[k].step = NonEmptySteps[k]
                 /\ store.blocks[k].topicId = TopicId
           /\ agent_output.publish_immediately
                 => ("publishTopic" \in calls /\ TopicId \in store.published)
           /\ calls \cap DeleteCalls = {}
           /\ deleteTopicCalls = 0
           /\ result[1].metadata.published = agent_output.publish_immediately

\* A successful run without publishing, whose notification write failed.
C14_Witness ==
    /\ Done
    /\ Len(result) = 1
    /\ result[1].success
    /\ ~agent_output.publish_immediately
    /\ agent_output.research_brief = "text"
    /\ ~agent_output.final_quiz
    /\ firstError = "createNotification"
    /\ Len(store.blocks) >= 1

\* The workflow returned success after all its writes.
ReturnedComplete ==
    /\ Len(result) = 1
    /\ result[1].success
    /\ TopicId \in store.topics
    /\ Len(store.embeddings) = 1
    /\ Len(store.blocks) = Len(NonEmptySteps)
    /\ agent_output.publish_immediately => TopicId \in store.published

\* The first store call of each clean-up path: the inner handler starts
\* with a delete, the sweep with the block query.
CleanupEntryCalls ==
    { "deleteBlock", "deleteEmbedding", "deleteTopic", "getBlocksByTopicId" }

\* The workflow returned failure after a clean-up path was entered.
ReturnedCompensated ==
    /\ Len(result) = 1
    /\ ~result[1].success
    /\ calls \cap CleanupEntryCalls # {}

Returned == dpc = "returned"
ExceptionEscaped == dpc = "raised"

\* The reply is one JSON document in one of the three framings: bare, or
\* fenced (labelled or not) with or without prose around the fence.
Framed(doc) ==
    /\ shape.composed
    /\ Len(shape.blocks) = 1
    /\ shape.blocks[1].body = doc
    /\ shape.blocks[1].kind = "bare" => (~shape.lead /\ ~shape.trail)

\* C16: whenever the decoder returns a parsed value, in any of the three
\* framings, the retry flag is true exactly when the value's success field
\* is the boolean false; it is false for true, an absent field, null, 0
\* and the string "false".
C16_RetryFlag ==
    /\ (Returned /\ parsed_json # PyNone)
          => (should_retry <=> parsed_json = Dict("False"))
    /\ \A d \in JsonDocuments :
          (Returned /\ Framed(d[1]) /\ d[2].type = "dict")
              => /\ parsed_json = d[2]
                 /\ should_retry <=> (d[1] = "{\"success\": false}")

\* success: 0 inside an unlabelled fence with prose in front.
C16_Witness ==
    /\ Returned
    /\ Framed("{\"success\": 0}")
    /\ shape.blocks[1].kind = "generic"
    /\ shape.lead
    /\ parsed_json = Dict("0")
    /\ ~should_retry

\* No framing of the reply holds a JSON document: the reply contains no
\* document at all (empty, whitespace, prose, malformed JSON, fences around
\* malformed JSON), or its documents stand unfenced next to prose or to
\* each other.
NothingParseable ==
    \/ \A i \in 1..Len(text) : text[i] \notin JsonTexts
    \/ /\ shape.composed
       /\ \A k \in 1..Len(shape.blocks) : shape.blocks[k].kind = "bare"
       /\ Len(shape.blocks) >= 2 \/ shape.lead \/ shape.trail

\* C17: when nothing in the reply parses as JSON under any of the three
\* framings, the decoder raises nothing and returns exactly
\* (None, retry = true).
C17_Unparseable ==
    NothingParseable
        => /\ ~ExceptionEscaped
           /\ Returned => (parsed_json = PyNone /\ should_retry)

\* Malformed JSON inside a labelled fence, given up by the handler.
C17_Witness ==
    /\ Returned
    /\ text = << FenceJson, NL, Malformed, NL, Fence >>
    /\ parsed_json = PyNone
    /\ should_retry

\* C18: a reply that is a JSON document but not an object (a number, an
\* array, a string, a boolean, null) is returned as its parsed value with
\* retry = true, and the decoder does not raise.
C18_NonObject ==
    \A d \in JsonDocuments :
        (d[2].type # "dict" /\ text = << d[1] >>)
            => /\ ~ExceptionEscaped
               /\ Returned => (parsed_json = d[2] /\ should_retry)

\* The fenced blocks of a composed reply, in the order of the text.
FencedBlocks == SelectSeq(shape.blocks, LAMBDA b : b.kind # "bare")
LabelledBlocks == SelectSeq(shape.blocks, LAMBDA b : b.kind = "json")

\* What the decoder returns when block b alone is considered: the object
\* with its retry flag, or (None, true) when the interior is no object.
Considering(b) ==
    LET objects == { d \in JsonDocuments : d[1] = b.body /\ d[2].type = "dict" }
    IN IF objects = {} THEN << PyNone, TRUE >>
       ELSE LET d == CHOOSE d \in objects : TRUE
            IN << d[2], d[1] = "{\"success\": false}" >>

SeveralFencedBlocks ==
    /\ shape.composed
    /\ Len(FencedBlocks) >= 2

\* C19: for a reply that is not bare JSON and holds two or more fenced
\* blocks, labelled or not and in any order, only the first fenced block
\* of the text decides the parsed value and the retry flag.
C19_FirstBlockOnly ==
    (Returned /\ SeveralFencedBlocks)
        => << parsed_json, should_retry >> = Considering(FencedBlocks[1])

\* C19 as the decoder has it: the first block with the json label decides
\* when the reply has one, whatever stands in front of it; otherwise the
\* first fenced block decides.  No other block influences the result.
C19_FirstLabelledBlock ==
    (Returned /\ SeveralFencedBlocks)
        => << parsed_json, should_retry >> =
              IF LabelledBlocks # << >>
              THEN Considering(LabelledBlocks[1])
              ELSE Considering(FencedBlocks[1])

\* An unlabelled block in front of a labelled one: the labelled one wins.
C19_Witness ==
    /\ Returned
    /\ SeveralFencedBlocks
    /\ FencedBlocks[1] = [ kind |-> "generic", body |-> "{\"success\": true}" ]
    /\ FencedBlocks[2] = [ kind |-> "json", body |-> "{\"success\": false}" ]
    /\ parsed_json = Dict("False")
    /\ should_retry

\* The replies that carry x: bare, or fenced with or without prose.
Encodings(x) ==
    { Encode(x, "bare", FALSE, FALSE) }
    \cup { Encode(x, style, lead, trail) :
              style \in { "json", "generic" }, lead \in BOOLEAN,
              trail \in BOOLEAN }

\* C20: decode(encode(x)) = x for every JSON-serializable x in each of
\* the three fence styles, with or without prose around a fence; the
\* parsed value does not depend on the style.
C20_RoundTrip ==
    \A x \in JsonValues :
        text \in Encodings(x)
            => /\ ~ExceptionEscaped
               /\ Returned => parsed_json = x

\* ------------------------------------------------ handler properties
Responded == apc = "done" /\ Len(response) = 1

\* Errors of generate_topic that end the request before the generation
\* agent's reply is decoded.
BeforeDecoding ==
    { Message("Failed to generate topic content"),
      InternalError("run_service"), InternalError("delete_session") }

\* generate_topic has extracted the generation agent's reply and called
\* the decoder on it.
GeneratorReplyDecoded ==
    /\ endpoint = "generate-topic"
    /\ Responded
    /\ Generator \in invoked
    /\ HasReply(model_response)
    /\ response[1].error \notin BeforeDecoding
    /\ ~parse_json_from_markdown(model_response.text).raised

\* C21: once the generation agent's reply is extracted and decoded, the
\* status follows the retry flag: retry = true (a decode failure included)
\* gives a 5xx response without the non-retryable marker, retry = false
\* gives a 200 response carrying the decoded payload.
C21_StatusFollowsRetry ==
    GeneratorReplyDecoded
        => LET d == parse_json_from_markdown(model_response.text)
               r == response[1]
           IN IF d.retry
              THEN r.status \in 500..599 /\ ~r.marker
              ELSE r.status = 200 /\ r.payload = d.value

\* The validity check of generate_topic came back with status INVALID.
MarkedInvalid ==
    /\ endpoint = "generate-topic"
    /\ Len(validation) = 1
    /\ validation[1].status_code = 200
    /\ validation[1].payload.status = "INVALID"

\* C22: in generate-topic, when the validity check marks the topic
\* INVALID, no session is created against the generation agent, the
\* generation agent is never invoked, and the response is a 4xx with the
\* non-retryable marker.
C22_InvalidTopic ==
    MarkedInvalid
        => /\ Generator \notin sessions
           /\ Generator \notin invoked
           /\ Responded
                 => /\ response[1].status \in 400..499
                    /\ response[1].marker

C22_Witness ==
    /\ MarkedInvalid
    /\ Responded
    /\ body = [ json |-> "object", topic |-> "text", user_id |-> "text" ]
    /\ model_response.text = << "{\"status\": \"INVALID\"}" >>
    /\ sessions = { Checker }
    /\ response[1].status = 489

\* topic or user_id is missing, empty, or blank after trimming.
Unusable(field) == field \in { "missing", "empty", "blank" }

\* C23: in check-topic and generate-topic, when no JSON body is supplied
\* or topic or user_id is missing, empty or whitespace-only, no session is
\* created, no agent is invoked and the response is a non-retryable 4xx.
C23_ValidationFirst ==
    LET unusable ==
            \/ body.json = "null"
            \/ /\ body.json = "object"
               /\ Unusable(body.topic) \/ Unusable(body.user_id)
    IN unusable
          => /\ sessions = {}
             /\ invoked = {}
             /\ Responded
                   => /\ response[1].status \in 400..499
                      /\ response[1].marker

\* The request is rejected for good: no body, no topic, no user_id, or a
\* topic generate_topic was told is INVALID.  (check_topic reports an
\* INVALID verdict as its result, with status 200.)
PermanentRejection ==
    \/ body.json = "null"
    \/ /\ body.json = "object"
       /\ body.topic \in { "missing", "empty" }
             \/ body.user_id \in { "missing", "empty" }
    \/ MarkedInvalid

\* C24: a response of check-topic or generate-topic carries the
\* non-retryable marker exactly when it is a permanent rejection; the
\* responses for transport failures, decode failures, success:false
\* payloads, internal exceptions and the 200 responses never carry it.
C24_MarkerIffPermanent ==
    Responded
        => /\ response[1].marker <=> PermanentRejection
           /\ response[1].marker <=> response[1].status \in 400..499
           /\ response[1].status \in { 200, 500 } => ~response[1].marker

\* generate-topic relaying a success:false payload: retryable.
C24_Witness ==
    /\ Responded
    /\ endpoint = "generate-topic"
    /\ Generator \in invoked
    /\ response[1].payload = Dict("False")
    /\ response[1].status = 500
    /\ ~response[1].marker

\* ---------------------------------------------------------------- C25
\* The ids of the live category list and the rows named "other" in any
\* letter case.
LiveIds == { all_categories[i].id : i \in 1..Len(all_categories) }
OtherIds ==
    { all_categories[i].id :
        i \in { j \in 1..Len(all_categories) :
                  all_categories[j].name \in { "other", "Other", "OTHER" } } }
NonEmptyCandidate == selected_category_id \notin { None, "" }

\* C25: validate_category_id over any live category list: a non-empty
\* candidate that is listed is returned unchanged; one that is not listed
\* gives the id of a category named "other" in any letter case; with no
\* such category it gives none and the topic has no categoryId field; the
\* result is always none or an id of the live list.
C25_CategoryValidated ==
    /\ hpc = "category_done" /\ NonEmptyCandidate =>
          /\ selected_category_id \in LiveIds =>
                category_id = selected_category_id
          /\ selected_category_id \notin LiveIds /\ OtherIds # {} =>
                category_id \in OtherIds
          /\ selected_category_id \notin LiveIds /\ OtherIds = {} =>
                category_id = None /\ topic_data.categoryId = None
          /\ topic_data.categoryId = category_id
    /\ category_id \in { None } \cup LiveIds

\* An unlisted candidate was replaced by the id of a category whose name
\* is "other" in another letter case.
C25_Witness ==
    /\ hpc = "category_done"
    /\ selected_category_id = "c9"
    /\ \E i \in 1..Len(all_categories) :
          /\ all_categories[i].name = "OTHER"
          /\ category_id = all_categories[i].id
          /\ topic_data.categoryId = category_id

\* ---------------------------------------------------------------- C26
\* C26: with selected_category absent (missing, null or empty) and a
\* category named "Other" in the live list, the topic's categoryId is the
\* id of "Other", as it is for an unknown id.
C26_AbsentFallsBackToOther ==
    hpc = "category_done" /\ ~NonEmptyCandidate /\ OtherIds # {} =>
        topic_data.categoryId \in OtherIds

\* ---------------------------------------------------------------- C27
\* The integer nearest to n / d: the one whose distance from n / d is
\* below one half (d is odd, no count lies halfway).
Nearest(n, d) ==
    CHOOSE m \in 0..(n + 1) : 2 * (IF n > d * m THEN n - d * m ELSE d * m - n) < d

\* C27: the read-time estimate is max(1, w / 225 rounded to the nearest
\* integer) for every word count w, a count that rounds to 0 giving 1, and
\* the same value is stored as estimatedReadTime, as metadata.estimatedTime
\* and returned as estimated_read_time.
C27_ReadTime ==
    hpc = "read_time_done" =>
        LET w == WordCount(words)
            nearest == Nearest(w, 225)
        IN /\ estimated_time = IF nearest >= 1 THEN nearest ELSE 1
           /\ estimated_time >= 1
           /\ topic_data.estimatedReadTime = estimated_time
           /\ topic_data.estimatedTime = estimated_time
           /\ metadata.estimated_read_time = estimated_time

\* A count nearer two minutes than one, and a count that rounds to zero.
C27_Witness ==
    /\ hpc = "read_time_done"
    /\ WordCount(words) = 338
    /\ estimated_time = 2
    /\ metadata.estimated_read_time = 2

\* ---------------------------------------------------------------- C28
SlugAlphabet ==
    { "a", "b", "d", "e", "h", "l", "o", "r", "w", "7", "-" }

\* C28: create_slug yields a canonical form: only characters of
\* [a-z0-9-], no two consecutive hyphens, no leading or trailing hyphen,
\* "  Hello, World!! " giving "hello-world"; and it is idempotent.
C28_CanonicalSlug ==
    hpc = "slug_done" =>
        /\ \A i \in 1..Len(slug) : slug[i] \in SlugAlphabet
        /\ \A i \in 1..(Len(slug) - 1) : ~(slug[i] = "-" /\ slug[i + 1] = "-")
        /\ slug # << >> => slug[1] # "-" /\ slug[Len(slug)] # "-"
        /\ create_slug(slug) = slug
        /\ title = ScenarioD =>
              slug = << "h", "e", "l", "l", "o", "-", "w", "o", "r", "l", "d" >>

\* A title with upper case, punctuation and blanks at both ends, reduced
\* to two words joined by one hyphen.
C28_Witness ==
    /\ hpc = "slug_done"
    /\ title = << " ", "B", "!", " ", "a" >>
    /\ slug = << "b", "-", "a" >>

\* ---------------------------------------------------------------- C29
\* The rows a step of the workflow adds to the store.
TopicCreated == store'.topics # store.topics /\ store.topics \subseteq store'.topics
EmbeddingCreated == Len(store'.embeddings) > Len(store.embeddings)
BlockCreated == Len(store'.blocks) > Len(store.blocks)
TopicPublished == store'.published \ store.published # {}
SuccessNotified == "topic_generated" \in store'.notifications \ store.notifications

\* C29: within one invocation the writes are sequential and ordered: the
\* topic is created before the embedding, the embedding before every
\* block, the topic is published (only when publish_immediately) after the
\* last block creation, the success notification is written after the
\* publish; at most one topic and one embedding are created; no embedding
\* or block is created for a topic id that create-topic has not returned.
C29_WriteOrder ==
    [][ /\ TopicCreated =>
              /\ "createTopic" \notin calls
              /\ store = EmptyStore
        /\ EmbeddingCreated =>
              /\ "createEmbedding" \notin calls
              /\ topic_id # None /\ topic_id \in store.topics
              /\ store.blocks = << >>
              /\ store'.embeddings[Len(store'.embeddings)].topicId = topic_id
        /\ BlockCreated =>
              /\ Len(store.embeddings) = 1
              /\ topic_id # None /\ topic_id \in store.topics
              /\ store.published = {} /\ store.notifications = {}
              /\ store'.blocks[Len(store'.blocks)].topicId = topic_id
        /\ TopicPublished =>
              /\ agent_output.publish_immediately
              /\ Len(store.embeddings) = 1
              /\ Ids(store.blocks) = Range(NonEmptySteps)
              /\ store.notifications = {}
        /\ SuccessNotified =>
              /\ Ids(store.blocks) = Range(NonEmptySteps)
              /\ agent_output.publish_immediately => topic_id \in store.published
        /\ Cardinality(store'.topics) <= 1
        /\ Len(store'.embeddings) <= 1 ]_vars

\* Every write of an invocation that publishes has been made: topic,
\* embedding, several blocks, publish, success notification.
C29_Witness ==
    /\ pc = "done"
    /\ agent_output.publish_immediately
    /\ store.topics = { TopicId }
    /\ Len(store.embeddings) = 1
    /\ Len(store.blocks) >= 2
    /\ TopicId \in store.published
    /\ "topic_generated" \in store.notifications

\* ---------------------------------------------------------------- C30
GenericBlocks == SelectSeq(shape.blocks, LAMBDA b : b.kind = "generic")
\* The attempt on the labelled fence fails: the reply has no such fence,
\* or the interior of the one found does not parse.
LabelledAttemptFails ==
    \/ LabelledBlocks = << >>
    \/ LabelledBlocks[1].body = Malformed

\* C30: when direct parsing fails and the attempt on the JSON-labelled
\* fence fails (no such fence, or an interior that does not parse), the
\* decoder goes on to the generic fenced block and parses its interior: a
\* valid object in a generic fence is returned even after a labelled block
\* with an unparseable interior.
C30_GenericAfterLabelledFails ==
    (Returned /\ shape.composed /\ LabelledAttemptFails /\ GenericBlocks # << >>)
        => << parsed_json, should_retry >> = Considering(GenericBlocks[1])

\* ---------------------------------------------------------------- C31
\* The validity check ran to its end: session created, agent run, session
\* deleted, reply decoded.
CheckCompleted ==
    /\ Checker \in created
    /\ Checker \in invoked
    /\ Checker \in deleted
    /\ Len(validation) = 1
    /\ validation[1].status_code = StatusOk

\* C31: in generate-topic the validity check completes before any call to
\* the generation agent, and a generation session is created only when the
\* check returned a decoded result whose status is VALID; for every other
\* outcome of the check no generation session is created and the
\* generation agent is not invoked.
C31_GenerationOnlyWhenValid ==
    /\ Generator \in sessions \cup invoked =>
          /\ CheckCompleted
          /\ validation[1].payload.status = "VALID"
    /\ Generator \in invoked => Generator \in created

C33_CountersDoNotGate ==
    (Done /\ Len(result) = 1 /\ result[1].success /\ convex_url) =>
        LET p == agent_output
            counted ==
                (IF p.quiz THEN QuizQuestions ELSE 0)
                + (IF p.reorder \in { "noquestion", "full" } THEN 1 ELSE 0)
                + (IF p.final_quiz THEN FinalQuizQuestions ELSE 0)
        IN /\ result[1].metadata.exercise_count = counted
           /\ Ids(store.blocks) = Range(NonEmptySteps)
           /\ p.reorder = "noquestion" => "reorder" \notin Ids(store.blocks)

\* A successful run whose reorder record has no question: counted, no block.
C33_Witness ==
    /\ Done
    /\ Len(result) = 1
    /\ result[1].success
    /\ convex_url
    /\ agent_output.reorder = "noquestion"
    /\ agent_output.quiz
    /\ ~agent_output.final_quiz
    /\ result[1].metadata.exercise_count = QuizQuestions + 1
    /\ "reorder" \notin Ids(store.blocks)
    /\ "quiz" \in Ids(store.blocks)

\* ---------------------------------------------------------------- C34
SweepEntered == "getBlocksByTopicId" \in calls
SweepGoingOn == { "sweep_blocks", "sweep_list_embeddings", "sweep_embeddings" }

\* C34: in the query-based sweep the topic delete is attempted exactly
\* when the list-blocks query succeeded: failures of single block deletes,
\* of single embedding deletes and of the list-embeddings query are
\* tolerated and the topic delete still follows, whereas a failure of the
\* list-blocks query ends the sweep with no embedding delete and no topic
\* delete attempted, the store left as it was, and the workflow still
\* returns its failure result.
C34_SweepTopicDelete ==
    /\ [](Done /\ SweepEntered =>
            /\ Len(result) = 1
            /\ ~result[1].success
            /\ topic_id \in sweepAttempted <=> "getEmbeddingsByTopicId" \in calls)
    /\ [][ /\ pc = "sweep_list_blocks" /\ faults' = faults => pc' \in SweepGoingOn
           /\ pc = "sweep_list_blocks" /\ faults' # faults =>
                 /\ pc' = "error_notification"
                 /\ store' = store
                 /\ sweepAttempted' = sweepAttempted
                 /\ deleteTopicCalls' = deleteTopicCalls
           /\ pc \in SweepGoingOn => pc' \in SweepGoingOn \cup { "sweep_topic" }
           /\ pc = "sweep_topic" =>
                 /\ deleteTopicCalls' = deleteTopicCalls + 1
                 /\ topic_id \in sweepAttempted'
           /\ pc \in { "error_notification", "error_write", "return_failure" } =>
                 /\ sweepAttempted' = sweepAttempted
                 /\ deleteTopicCalls' = deleteTopicCalls
                 /\ store'.topics = store.topics ]_vars

\* The list-blocks query of the sweep raised: nothing was deleted, the
\* topic is still in the store, and the workflow returned its failure.
C34_Witness ==
    /\ Done
    /\ SweepEntered
    /\ sweepAttempted = {}
    /\ "getEmbeddingsByTopicId" \notin calls
    /\ "deleteTopic" \notin calls
    /\ TopicId \in store.topics
    /\ Len(store.blocks) >= 2
    /\ result = << FailureResult("getNotificationTypes") >>

\* ---------------------------------------------------------------- C35
\* What the store holds under the topic id of invocation i.
RowsOwnedBy(st, i) ==
    [ topic |-> TopicIdOf(i) \in st.topics,
      published |-> TopicIdOf(i) \in st.published,
      embeddings |-> SelectSeq(st.embeddings, LAMBDA row : row.topicId = TopicIdOf(i)),
      blocks |-> SelectSeq(st.blocks, LAMBDA row : row.topicId = TopicIdOf(i)) ]
Succeeded(i) ==
    /\ runs[i].pc = "done"
    /\ Len(runs[i].result) = 1
    /\ runs[i].result[1].success

\* C35: with two invocations interleaved on the shared store, the same
\* payload included, no step of one invocation (its compensation and its
\* sweep included) deletes or alters a row carrying the topic id of the
\* other, and the topic, the embedding and the blocks of an invocation
\* that succeeded all remain.
C35_Isolation ==
    /\ [][ \A i \in Invocations :
              runs'[i] # runs[i] =>
                 \A j \in Invocations \ { i } :
                    RowsOwnedBy(shared', j) = RowsOwnedBy(shared, j) ]_vars
    /\ [](\A i \in Invocations :
              Succeeded(i) =>
                 LET own == RowsOwnedBy(shared, i)
                 IN /\ own.topic
                    /\ Len(own.embeddings) = 1
                    /\ Ids(own.blocks) =
                          { BlockIdOf(i, step) :
                              step \in { x \in Range(Sections) :
                                           HasContent(runs[i].agent_output, x) } })

\* Two invocations with the same payload: the first is in its sweep, its
\* blocks already deleted, while the second has stored a block.
C35_Witness ==
    /\ runs[1].agent_output = runs[2].agent_output
    /\ runs[1].pc = "sweep_topic"
    /\ RowsOwnedBy(shared, 1).blocks = << >>
    /\ Len(runs[1].created_resources.block_ids) >= 1
    /\ runs[2].pc = "create_blocks"
    /\ Len(RowsOwnedBy(shared, 2).blocks) >= 1
    /\ shared.topics = { "t1", "t2" }

\* ---------------------------------------------------------------- C36
NothingDeleted ==
    calls \cap { "deleteBlock", "deleteEmbedding", "deleteTopic" } = {}

\* C36: an invocation writes at most one notification: the success
\* notification only in an invocation that then returns success: true with
\* nothing deleted, the error notification only in one that returns
\* success: false, and never both.
C36_OneNotification ==
    /\ [](/\ Cardinality(store.notifications) <= 1
          /\ "topic_generated" \in store.notifications =>
                /\ pc \in { "return_success", "done" }
                /\ NothingDeleted
                /\ topic_id \in store.topics
                /\ Done => Len(result) = 1 /\ result[1].success
          /\ "error" \in store.notifications =>
                /\ pc \in { "return_failure", "done" }
                /\ Done => Len(result) = 1 /\ ~result[1].success)
    /\ [][ store'.notifications # store.notifications =>
              store.notifications = {} ]_vars

\* An invocation that wrote the success notification and returned success
\* with its blocks stored.
C36_Witness ==
    /\ Done
    /\ store.notifications = { "topic_generated" }
    /\ result[1].success
    /\ "createErrorNotification" \notin calls
    /\ Len(store.blocks) >= 2

\* ---------------------------------------------------------------- C37
\* The invocation failed before createTopic returned an id: json.loads or
\* the metadata computation raised, or createTopic itself did.
FailedBeforeTopic ==
    firstError \in { "JSONDecodeError", "TypeError", "createTopic" }

\* C37: when the failure occurs before a topic id has been assigned, the
\* handler issues no delete and no list-by-topic call, the store holds no
\* topic, embedding or block of the invocation, and the workflow still
\* returns the failure result; the only write that may occur is the error
\* notification.
C37_NoCleanupBeforeTopic ==
    FailedBeforeTopic =>
        /\ topic_id = None
        /\ calls \cap { "deleteBlock", "deleteEmbedding", "deleteTopic",
                        "getBlocksByTopicId", "getEmbeddingsByTopicId" } = {}
        /\ calls \cap { "createEmbedding", "createBlock", "publishTopic",
                        "createNotification" } = {}
        /\ store.topics = {} /\ store.published = {}
        /\ store.embeddings = << >> /\ store.blocks = << >>
        /\ store.notifications \subseteq { "error" }
        /\ Done => result = << FailureResult(firstError) >>

\* createTopic raised; the error notification was written and the failure
\* returned without any clean-up call.
C37_Witness ==
    /\ Done
    /\ firstError = "createTopic"
    /\ calls = { "createTopic", "getNotificationTypes", "createErrorNotification" }
    /\ store.notifications = { "error" }
    /\ result = << FailureResult("createTopic") >>

====
